---- MODULE Spec2Model ----
(***************************************************************************)
(* Speaker attribution, caption correlation and the audio relay queue of   *)
(* the in-meeting media agent.                                             *)
(*                                                                         *)
(* Time is the value of Date.now() in milliseconds.  A handler runs at     *)
(* clock time `now`; the specifications pair each handler with the delay   *)
(* until the next callback.                                                *)
(***************************************************************************)
EXTENDS Integers, Sequences, FiniteSets, TLC

VARIABLES
    now,                \* Date.now()
    receiverMap,        \* ReceiverManager.receiverMap, in insertion order
    machines,           \* ReceiverManager.participantSpeakingStateMachineMap
    machineOrder,       \* insertion order of participantSpeakingStateMachineMap
    speechIntervals,    \* DominantSpeakerManager.speechIntervalsPerParticipant, in key order
    captionAudioTimes,  \* DominantSpeakerManager.captionAudioTimes
    nPolls,             \* number of pollReceivers callbacks so far
    audioTracks,        \* per audio track: the closure state of handleAudioTrack
    globalAudioQueueIntervalsSet, \* tracks whose queue interval was registered
    wsAudio,            \* calls of ws.sendPerParticipantAudio, in order
    wsJson,             \* calls of ws.sendJson made by handleAudioTrack, in order
    nChunks,            \* number of audio frames delivered so far
    lastFrame,          \* the frame most recently handed to a transform
    virtualStreams,     \* VirtualStreamToPhysicalStreamMappingManager.virtualStreams, in insertion order
    physicalStreamsByClientStreamId,  \* Map of the manager, in insertion order
    physicalStreamsByServerStreamId,  \* Map of the manager, in insertion order
    physicalClientStreamIdToVirtualStreamIdMapping,  \* object of the manager
    virtualStreamIdToPhysicalClientStreamIdMapping,  \* object of the manager
    dominantSpeakerStreamId,  \* DominantSpeakerManager.dominantSpeakerStreamId
    nConsoleErrors,     \* number of realConsole.error calls of the manager
    delivered,          \* per event source, the events it has produced, in
                        \* order, and the order in which deliveries took place
    nEvents,            \* number of events delivered to the manager so far
    perfNow,            \* performance.now(), in thirds of a millisecond
    videoTracks,        \* per video track: the closure state of handleVideoTrack
    wsVideo,            \* calls of ws.sendVideo, in order
    nVideoFrames,       \* number of video frames delivered so far
    outNow,             \* the clock of the timers and of the audio context, in ms
    audioQueue,         \* BotOutputManager.audioQueue
    isPlayingAudioQueue,  \* BotOutputManager.isPlayingAudioQueue
    nextPlayTime,       \* BotOutputManager.nextPlayTime, in ms
    turnOffMicTimeout,  \* BotOutputManager.turnOffMicTimeout
    timers,             \* the timers set with setTimeout and not yet fired or cleared
    nextTimerId,        \* the id the next setTimeout returns
    sourceStarts,       \* calls of source.start, in order
    micSignals,         \* calls of the turnOnMic and turnOffMic callbacks, in order
    enqueues,           \* calls of playPCMAudio, in order
    lateDrains,         \* number of drain timers that fired after their time
    wsReadyState,       \* WebSocketClient.ws.readyState
    mediaSendingEnabled,  \* WebSocketClient.mediaSendingEnabled
    wsMessages,         \* calls of ws.send made by the send operations, in order
    nWsErrors,          \* number of errors the send operations logged
    nSends,             \* number of calls of the send operations so far
    activeMessages,     \* TranscriptMessageFinalizationManager._activeMessages, in insertion order
    captionUpdates,     \* calls of ws.sendClosedCaptionUpdate, in order
    nMessages,          \* number of calls of addMessage so far
    _activeIds,         \* UtteranceIdGenerator._activeIds, in insertion order
    nGenerated,         \* number of calls of UtteranceIdGenerator._generate so far
    utteranceCalls      \* calls of UtteranceIdGenerator.next with their results, in order

vars == <<now, receiverMap, machines, machineOrder, speechIntervals,
          captionAudioTimes, nPolls, audioTracks, globalAudioQueueIntervalsSet,
          wsAudio, wsJson, nChunks, lastFrame, virtualStreams,
          physicalStreamsByClientStreamId, physicalStreamsByServerStreamId,
          physicalClientStreamIdToVirtualStreamIdMapping,
          virtualStreamIdToPhysicalClientStreamIdMapping, dominantSpeakerStreamId,
          nConsoleErrors, delivered, nEvents, perfNow, videoTracks, wsVideo,
          nVideoFrames, outNow, audioQueue, isPlayingAudioQueue, nextPlayTime,
          turnOffMicTimeout, timers, nextTimerId, sourceStarts, micSignals,
          enqueues, lateDrains, wsReadyState, mediaSendingEnabled, wsMessages,
          nWsErrors, nSends, activeMessages, captionUpdates, nMessages,
          _activeIds, nGenerated, utteranceCalls>>

attributionVars == <<receiverMap, machines, machineOrder, speechIntervals, nPolls>>
audioVars ==
    <<audioTracks, globalAudioQueueIntervalsSet, wsAudio, wsJson, nChunks, lastFrame>>
managerVars ==
    <<virtualStreams, physicalStreamsByClientStreamId, physicalStreamsByServerStreamId,
      physicalClientStreamIdToVirtualStreamIdMapping,
      virtualStreamIdToPhysicalClientStreamIdMapping>>
videoVars == <<perfNow, videoTracks, wsVideo, nVideoFrames>>
\* what the handlers modelled further down own; none of the handlers of the
\* attribution, the audio relay and the manager touches it
outputManagerVars ==
    <<audioQueue, isPlayingAudioQueue, nextPlayTime, turnOffMicTimeout, timers,
      nextTimerId, sourceStarts, micSignals>>
outputVars == <<outNow, outputManagerVars, enqueues, lateDrains>>
wireVars == <<wsReadyState, mediaSendingEnabled, wsMessages, nWsErrors, nSends>>
transcriptVars == <<activeMessages, captionUpdates, nMessages>>
utteranceVars == <<_activeIds, nGenerated, utteranceCalls>>
mediaVars == <<videoVars, outputVars, wireVars, transcriptVars, utteranceVars>>
\* everything but mediaVars
relayVars ==
    <<now, captionAudioTimes, attributionVars, audioVars, managerVars,
      dominantSpeakerStreamId, nConsoleErrors, delivered, nEvents>>
storeVars ==
    <<managerVars, dominantSpeakerStreamId, nConsoleErrors, delivered, nEvents,
      mediaVars>>

----------------------------------------------------------------------------
(* Bounds of the model *)

MaxPollsSM == 8
MaxPollsScenario == 12
MaxPollsQuery == 7
MaxCaptionsQuery == 2
MaxCaptionsLegacy == 3
MaxChunksAudio == 2
MaxTicksAudio == 5
MaxChunksTracks == 2
MaxTicksTracks == 1
MaxStoreEvents == 3
MaxLinkEvents == 4
MaxResolveEvents == 5
MaxVideoFrames == 3
MaxVideoTime == 250
MaxEnqueues == 3
MaxOutTime == 3000
MaxWireSends == 2
MaxMessages == 4
MaxUtteranceCalls == 5
MaxLongEnqueues == 2
MaxOutLongTime == 12000
MaxOutFairTime == 1400
MaxPollsReported == 10

Participants == {"P1", "P2", "P3"}
AudioTracks == {"A1", "A2"}
\* order in which activeCall.participants is walked
RosterOrder == <<"P1", "P2", "P3">>
Receivers == {"R1", "R2"}
NoSpeaker == "null"
\* null and undefined
Null == "null"
\* an object without keys
EmptyObject == [k \in {} |-> ""]

----------------------------------------------------------------------------
(* Program constants *)

SampleWindowCap == 10
LastSamplesCount == 5
MajorityThreshold == 3
SpeechEndBackoffMs == 100
PollPeriodMs == 100
ACTIVE_SPEAKER_LATENCY_MS == 2000
DEBUG_INFO_PERIOD_MS == 10000

----------------------------------------------------------------------------
(* DominantSpeakerManager: interval bookkeeping *)

HasIntervals(si, speakerId) == \E i \in 1..Len(si) : si[i].speakerId = speakerId

IntervalsOf(si, speakerId) ==
    IF HasIntervals(si, speakerId)
    THEN si[CHOOSE i \in 1..Len(si) : si[i].speakerId = speakerId].intervals
    ELSE <<>>

PushInterval(si, speakerId, ev) ==
    LET si2 == IF HasIntervals(si, speakerId) THEN si
               ELSE Append(si, [speakerId |-> speakerId, intervals |-> <<>>])
    IN [i \in 1..Len(si2) |->
          IF si2[i].speakerId = speakerId
          THEN [si2[i] EXCEPT !.intervals = Append(@, ev)]
          ELSE si2[i]]

addSpeechIntervalStart(si, timestampMs, speakerId) ==
    PushInterval(si, speakerId, [type |-> "start", timestampMs |-> timestampMs])

\* an end that is recorded as one more start
addSpeechIntervalEndAsStart(si, timestampMs, speakerId) ==
    PushInterval(si, speakerId, [type |-> "start", timestampMs |-> timestampMs])

addSpeechIntervalEnd(si, timestampMs, speakerId) ==
    PushInterval(si, speakerId, [type |-> "end", timestampMs |-> timestampMs])

----------------------------------------------------------------------------
(* ParticipantSpeakingStateMachine *)

NewMachine == [created |-> TRUE, state |-> "NOT_SPEAKING", samples |-> <<>>]
NoMachine == [created |-> FALSE, state |-> "NOT_SPEAKING", samples |-> <<>>]

\* this.samples.push(sample); if (this.samples.length > 10) this.samples.shift()
PushSample(samples, sample) ==
    LET a == Append(samples, sample)
    IN IF Len(a) > SampleWindowCap THEN Tail(a) ELSE a

LastFiveSamplesFirst(samples) ==
    IF Len(samples) <= LastSamplesCount THEN samples
    ELSE SubSeq(samples, 1, LastSamplesCount)

\* this.samples.slice(-5)
LastFiveSamples(samples) ==
    IF Len(samples) <= LastSamplesCount THEN samples
    ELSE SubSeq(samples, Len(samples) - LastSamplesCount + 1, Len(samples))

TooFewSamplesOffByOne(lastFive) == Len(lastFive) < LastSamplesCount - 1

\* if (lastFiveSamples.length < 5) return;
TooFewSamples(lastFive) == Len(lastFive) < LastSamplesCount

MajoritySimple(lastFive) ==
    Cardinality({i \in 1..Len(lastFive) : lastFive[i].isSpeaking}) >= MajorityThreshold

\* lastFiveSamples.filter(sample => sample.isSpeaking).length > 3
MajorityOfLastFiveSamplesWereTrue(lastFive) ==
    Cardinality({i \in 1..Len(lastFive) : lastFive[i].isSpeaking}) > MajorityThreshold

EndTimestampNoBackoff(firstTimestamp) == firstTimestamp

\* firstOfLastFiveSamplesTimestamp - 100
EndTimestamp(firstTimestamp) == firstTimestamp - SpeechEndBackoffMs

\* addSample on the machine of participant p; eng carries the machines and the
\* interval table the machine writes to
\* (eng is the value of the argument, evaluated once as a call evaluates it)
addSample(engine, p, sample) ==
    CHOOSE result \in {
          LET m == eng.machines[p]
              samples2 == PushSample(m.samples, sample)
              lastFive == LastFiveSamples(samples2)
          IN IF TooFewSamples(lastFive)
             THEN [eng EXCEPT !.machines[p].samples = samples2]
             ELSE
               LET previousState == m.state
                   first == lastFive[1].timestamp
                   newState == IF MajorityOfLastFiveSamplesWereTrue(lastFive)
                               THEN "SPEAKING" ELSE "NOT_SPEAKING"
                   si2 == IF previousState = "NOT_SPEAKING" /\ newState = "SPEAKING"
                          THEN addSpeechIntervalStart(eng.speechIntervals, first, p)
                          ELSE IF previousState = "SPEAKING" /\ newState = "NOT_SPEAKING"
                          THEN addSpeechIntervalEnd(eng.speechIntervals, EndTimestamp(first), p)
                          ELSE eng.speechIntervals
               IN [eng EXCEPT !.machines[p].samples = samples2,
                              !.machines[p].state = newState,
                              !.speechIntervals = si2]
      : eng \in {engine}} : TRUE

----------------------------------------------------------------------------
(* DominantSpeakerManager: caption correlation and the attribution queries *)

\* DominantSpeakerManager.addCaptionAudioTime
addCaptionAudioTime(captions, timestampMs, speakerId) ==
    Append(captions, [timestampMs |-> timestampMs, speakerId |-> speakerId])

\* captionAudioTimes.filter(c => c.timestampMs <= timestampMs)
CaptionsAtOrBefore(captions, timestampMs) ==
    LET AtOrBefore(c) == c.timestampMs <= timestampMs
    IN SelectSeq(captions, AtOrBefore)

ReduceLastEntry(entries) == entries[Len(entries)]

\* entries.reduce((max, c) => c.timestampMs > max.timestampMs ? c : max)
RECURSIVE ReduceMaxFrom(_, _, _)
ReduceMaxFrom(entries, i, max) ==
    IF i > Len(entries) THEN max
    ELSE ReduceMaxFrom(entries, i + 1,
            IF entries[i].timestampMs > max.timestampMs THEN entries[i] ELSE max)

ReduceMax(entries) == ReduceMaxFrom(entries, 2, entries[1])

getLastSpeakerIdForTimestampMs(captions, timestampMs) ==
    LET before == CaptionsAtOrBefore(captions, timestampMs)
    IN IF Len(before) = 0 THEN NoSpeaker ELSE ReduceMax(before).speakerId

\* the loop over one participant's interval events, with its break
RECURSIVE ScanIntervalsFrom(_, _, _, _)
ScanIntervalsFrom(intervals, i, timestampMs, acc) ==
    IF i > Len(intervals) THEN acc
    ELSE IF intervals[i].timestampMs > timestampMs THEN acc
    ELSE IF intervals[i].type = "start"
    THEN ScanIntervalsFrom(intervals, i + 1, timestampMs,
            [isCurrentlySpeaking |-> TRUE,
             timestampMsOfLastStart |-> intervals[i].timestampMs])
    ELSE ScanIntervalsFrom(intervals, i + 1, timestampMs,
            [acc EXCEPT !.isCurrentlySpeaking = FALSE])

ScanIntervalsIgnoringEnd(intervals, timestampMs) ==
    LET starts == {i \in 1..Len(intervals) :
                     intervals[i].type = "start" /\ intervals[i].timestampMs <= timestampMs}
    IN IF starts = {}
       THEN [isCurrentlySpeaking |-> FALSE, timestampMsOfLastStart |-> 0]
       ELSE [isCurrentlySpeaking |-> TRUE,
             timestampMsOfLastStart |->
                 intervals[CHOOSE i \in starts : \A j \in starts : j <= i].timestampMs]

ScanIntervals(intervals, timestampMs) ==
    ScanIntervalsFrom(intervals, 1, timestampMs,
        [isCurrentlySpeaking |-> FALSE, timestampMsOfLastStart |-> 0])

\* speakersAtTimestamp, in the key order of speechIntervalsPerParticipant
RECURSIVE SpeakersAtTimestampFrom(_, _, _)
SpeakersAtTimestampFrom(si, i, timestampMs) ==
    IF i > Len(si) THEN <<>>
    ELSE LET scan == ScanIntervals(si[i].intervals, timestampMs)
             rest == SpeakersAtTimestampFrom(si, i + 1, timestampMs)
         IN IF scan.isCurrentlySpeaking
            THEN <<[speakerId |-> si[i].speakerId,
                    timestampMsOfLastStart |-> scan.timestampMsOfLastStart]>> \o rest
            ELSE rest

SpeakersAtTimestamp(si, timestampMs) == SpeakersAtTimestampFrom(si, 1, timestampMs)

RECURSIVE ReduceLatestStartFrom(_, _, _)
ReduceLatestStartFrom(speakers, i, max) ==
    IF i > Len(speakers) THEN max
    ELSE ReduceLatestStartFrom(speakers, i + 1,
            IF speakers[i].timestampMsOfLastStart > max.timestampMsOfLastStart
            THEN speakers[i] ELSE max)

ReduceLatestStart(speakers) == ReduceLatestStartFrom(speakers, 2, speakers[1])

\* speakers.reduce((min, s) => s.timestampMsOfLastStart < min.timestampMsOfLastStart ? s : min)
RECURSIVE ReduceEarliestStartFrom(_, _, _)
ReduceEarliestStartFrom(speakers, i, min) ==
    IF i > Len(speakers) THEN min
    ELSE ReduceEarliestStartFrom(speakers, i + 1,
            IF speakers[i].timestampMsOfLastStart < min.timestampMsOfLastStart
            THEN speakers[i] ELSE min)

ReduceEarliestStart(speakers) == ReduceEarliestStartFrom(speakers, 2, speakers[1])

IsAmongSpeakers(speakers, speakerId) ==
    \E i \in 1..Len(speakers) : speakers[i].speakerId = speakerId

TieBreakWithoutCaptions(speakers, captions, timestampMs) ==
    ReduceEarliestStart(speakers).speakerId

TieBreakCaptionUnchecked(speakers, captions, timestampMs) ==
    LET participantForLastCaptionAudioTime ==
            getLastSpeakerIdForTimestampMs(captions, timestampMs)
    IN IF Len(captions) > 0 /\ participantForLastCaptionAudioTime # NoSpeaker
       THEN participantForLastCaptionAudioTime
       ELSE ReduceEarliestStart(speakers).speakerId

\* the tie breaker for several simultaneous speakers: the caption ground truth
\* when it names one of them, else the earliest start
TieBreak(speakers, captions, timestampMs) ==
    LET participantForLastCaptionAudioTime ==
            getLastSpeakerIdForTimestampMs(captions, timestampMs)
    IN IF /\ Len(captions) > 0
          /\ participantForLastCaptionAudioTime # NoSpeaker
          /\ IsAmongSpeakers(speakers, participantForLastCaptionAudioTime)
       THEN participantForLastCaptionAudioTime
       ELSE ReduceEarliestStart(speakers).speakerId

getSpeakerIdForTimestampMsUsingSpeechIntervals(si, captions, timestampMs) ==
    LET speakersAtTimestamp == SpeakersAtTimestamp(si, timestampMs)
    IN IF Len(speakersAtTimestamp) = 0 THEN NoSpeaker
       ELSE IF Len(speakersAtTimestamp) = 1 THEN speakersAtTimestamp[1].speakerId
       ELSE TieBreak(speakersAtTimestamp, captions, timestampMs)

\* processClosedCaptionData / onActiveSpeaker: a ground-truth event arrives
AddCaption(timestampMs, speakerId) ==
    captionAudioTimes' = addCaptionAudioTime(captionAudioTimes, timestampMs, speakerId)

----------------------------------------------------------------------------
(* ReceiverManager *)

HasReceiver(rm, r) == \E i \in 1..Len(rm) : rm[i].receiver = r

ReceiversIn(rm) == {rm[i].receiver : i \in 1..Len(rm)}

\* what one receiver reports on a poll: whether getContributingSources() is
\* non-empty and which participants getSpeakingParticipantIds finds among the
\* recent ones
SourceInputs(talkers) ==
    {[hasSources |-> FALSE, speaking |-> {}]}
      \cup {[hasSources |-> TRUE, speaking |-> S] : S \in SUBSET talkers}

\* the machines created for the speaking participants that have none yet
RECURSIVE CreateMachines(_, _, _)
CreateMachines(k, speaking, engine) ==
    CHOOSE result \in {
          IF k > Len(RosterOrder) THEN eng
          ELSE LET p == RosterOrder[k]
               IN IF p \in speaking /\ ~eng.machines[p].created
                  THEN CreateMachines(k + 1, speaking,
                          [eng EXCEPT !.machines[p] = NewMachine,
                                      !.machineOrder = Append(@, p)])
                  ELSE CreateMachines(k + 1, speaking, eng)
      : eng \in {engine}} : TRUE

\* one sample for every machine of the map
RECURSIVE SampleMachines(_, _, _, _)
SampleMachines(j, speaking, currentTime, engine) ==
    CHOOSE result \in {
          IF j > Len(eng.machineOrder) THEN eng
          ELSE LET p == eng.machineOrder[j]
               IN SampleMachines(j + 1, speaking, currentTime,
                     addSample(eng, p, [isSpeaking |-> p \in speaking,
                                        timestamp |-> currentTime]))
      : eng \in {engine}} : TRUE

RECURSIVE PollLoop(_, _, _, _)
PollLoop(i, src, currentTime, engine) ==
    CHOOSE result \in {
          IF i > Len(eng.receiverMap) THEN eng
          ELSE LET entry == eng.receiverMap[i]
                   in1 == src[entry.receiver]
                   eng1 == IF in1.hasSources /\ ~entry.isActive
                           THEN [eng EXCEPT !.receiverMap[i].isActive = TRUE]
                           ELSE eng
               IN IF ~entry.isActive
                  THEN PollLoop(i + 1, src, currentTime, eng1)
                  ELSE PollLoop(i + 1, src, currentTime,
                          SampleMachines(1, in1.speaking, currentTime,
                              CreateMachines(1, in1.speaking, eng1)))
      : eng \in {engine}} : TRUE

Engine == [receiverMap |-> receiverMap, machines |-> machines,
           machineOrder |-> machineOrder, speechIntervals |-> speechIntervals]

\* ReceiverManager.addReceiver
AddReceiver(r) ==
    /\ receiverMap' = IF HasReceiver(receiverMap, r) THEN receiverMap
                      ELSE Append(receiverMap, [receiver |-> r, isActive |-> FALSE])
    /\ UNCHANGED <<machines, machineOrder, speechIntervals, nPolls>>

\* ReceiverManager.pollReceivers
PollReceivers(src) ==
    LET eng == PollLoop(1, src, now, Engine)
    IN /\ receiverMap' = eng.receiverMap
       /\ machines' = eng.machines
       /\ machineOrder' = eng.machineOrder
       /\ speechIntervals' = eng.speechIntervals
       /\ nPolls' = nPolls + 1

----------------------------------------------------------------------------
(* handleAudioTrack: the per-track audio queue *)

\* event.receiver of the track
ReceiverOf(tr) == IF tr = "A1" THEN "R1" ELSE "R2"

\* no frame has been handed to a transform yet
NoFrame == [trackId |-> "none", nonSilent |-> FALSE, frame |-> 0]

EmptyDebugInfo ==
    [framesWithoutDominantSpeaker |-> 0, framesWithDominantSpeaker |-> 0,
     totalFrames |-> 0]

\* a track handleAudioTrack has not been called for
NoTrack ==
    [started |-> FALSE, intervalActive |-> FALSE, audioDataQueue |-> <<>>,
     trackIsNonSilent |-> FALSE, handleAudioTrackDebugInfo |-> EmptyDebugInfo,
     timeSinceLastDebugInfoSend |-> 0, trackEnded |-> FALSE,
     streamClosed |-> FALSE]

\* the closure state right after handleAudioTrack has set the interval up
StartedTrack ==
    [started |-> TRUE, intervalActive |-> TRUE, audioDataQueue |-> <<>>,
     trackIsNonSilent |-> FALSE, handleAudioTrackDebugInfo |-> EmptyDebugInfo,
     timeSinceLastDebugInfoSend |-> 0, trackEnded |-> FALSE,
     streamClosed |-> FALSE]

IsEligibleWithoutLatency(currentTime, chunk) ==
    currentTime - chunk.audioArrivalTime >= 0

\* Date.now() - audioDataQueue[0].audioArrivalTime >= ACTIVE_SPEAKER_LATENCY_MS
IsEligible(currentTime, chunk) ==
    currentTime - chunk.audioArrivalTime >= ACTIVE_SPEAKER_LATENCY_MS

\* one iteration that also sends the audio of a chunk nobody is speaking for
ShiftChunkForwardingUnattributed(st, dominantSpeakerId) ==
    LET chunk == Head(st.audioDataQueue)
        info == st.info
    IN [audioDataQueue |-> Tail(st.audioDataQueue),
        info |-> IF dominantSpeakerId # NoSpeaker
                 THEN [info EXCEPT !.totalFrames = @ + 1,
                                   !.framesWithDominantSpeaker = @ + 1]
                 ELSE [info EXCEPT !.totalFrames = @ + 1,
                                   !.framesWithoutDominantSpeaker = @ + 1],
        sent |-> Append(st.sent, [participantId |-> dominantSpeakerId,
                                  audioData |-> chunk.audioData])]

\* the body of the while loop of processAudioQueue once the speaker of the
\* shifted chunk is known
ShiftChunk(st, dominantSpeakerId) ==
    LET chunk == Head(st.audioDataQueue)
        info == st.info
    IN [audioDataQueue |-> Tail(st.audioDataQueue),
        info |-> IF dominantSpeakerId # NoSpeaker
                 THEN [info EXCEPT !.totalFrames = @ + 1,
                                   !.framesWithDominantSpeaker = @ + 1]
                 ELSE [info EXCEPT !.totalFrames = @ + 1,
                                   !.framesWithoutDominantSpeaker = @ + 1],
        sent |-> IF dominantSpeakerId # NoSpeaker
                 THEN Append(st.sent, [participantId |-> dominantSpeakerId,
                                       audioData |-> chunk.audioData])
                 ELSE st.sent]

\* the while loop of processAudioQueue; st carries the queue, the counters and
\* the messages sent
RECURSIVE DrainAudioQueue(_, _, _, _)
DrainAudioQueue(st, currentTime, si, captions) ==
    IF Len(st.audioDataQueue) > 0 /\ IsEligible(currentTime, st.audioDataQueue[1])
    THEN DrainAudioQueue(
            ShiftChunk(st, getSpeakerIdForTimestampMsUsingSpeechIntervals(
                               si, captions, st.audioDataQueue[1].audioArrivalTime)),
            currentTime, si, captions)
    ELSE st

\* handleAudioTrack up to the registration of the 'ended' listener
HandleAudioTrack(tr) ==
    /\ ~audioTracks[tr].started
    /\ AddReceiver(ReceiverOf(tr))
    /\ audioTracks' = [audioTracks EXCEPT ![tr] = StartedTrack]
    /\ globalAudioQueueIntervalsSet' = globalAudioQueueIntervalsSet \cup {tr}
    /\ wsJson' = IF Cardinality(globalAudioQueueIntervalsSet \cup {tr}) > 1
                 THEN Append(wsJson, [type |-> "MultipleAudioQueuesDetected",
                                      trackId |-> tr])
                 ELSE wsJson
    /\ UNCHANGED <<wsAudio, nChunks, lastFrame>>

\* the interval callback processAudioQueue of one track
ProcessAudioQueue(tr) ==
    /\ audioTracks[tr].intervalActive
    /\ LET t == audioTracks[tr]
           drained == DrainAudioQueue(
                         [audioDataQueue |-> t.audioDataQueue,
                          info |-> t.handleAudioTrackDebugInfo,
                          sent |-> wsAudio],
                         now, speechIntervals, captionAudioTimes)
           report == now - t.timeSinceLastDebugInfoSend >= DEBUG_INFO_PERIOD_MS
       IN /\ audioTracks' = [audioTracks EXCEPT ![tr] =
                [t EXCEPT !.audioDataQueue = drained.audioDataQueue,
                          !.handleAudioTrackDebugInfo =
                               IF report THEN EmptyDebugInfo ELSE drained.info,
                          !.timeSinceLastDebugInfoSend =
                               IF report THEN now ELSE @]]
          /\ wsAudio' = drained.sent
         /\ wsJson' = IF report
                      THEN Append(wsJson, [type |-> "HandleAudioTrackDebugInfo",
                                           trackId |-> tr,
                                           debugInfo |-> drained.info])
                      ELSE wsJson
    /\ UNCHANGED <<globalAudioQueueIntervalsSet, nChunks, lastFrame>>

\* transform of the track's TransformStream for one audio frame; nonSilent is
\* audioData.some(value => value !== 0)
Transform(tr, nonSilent) ==
    /\ audioTracks[tr].started
    /\ ~audioTracks[tr].streamClosed
    /\ LET t == audioTracks[tr]
           trackIsNonSilent2 == t.trackIsNonSilent \/ nonSilent
           queued == /\ trackIsNonSilent2
                     /\ ~(Cardinality(globalAudioQueueIntervalsSet) > 1 /\ ~nonSilent)
       IN audioTracks' = [audioTracks EXCEPT ![tr] =
             [t EXCEPT !.trackIsNonSilent = trackIsNonSilent2,
                       !.audioDataQueue =
                           IF queued
                           THEN Append(@, [audioArrivalTime |-> now,
                                           audioData |-> [frame |-> nChunks + 1,
                                                          nonSilent |-> nonSilent]])
                           ELSE @]]
    /\ wsJson' = IF ~audioTracks[tr].trackIsNonSilent /\ nonSilent
                 THEN Append(wsJson, [type |-> "WebRTCTrackIsNonSilent",
                                      trackId |-> tr])
                 ELSE wsJson
    /\ nChunks' = nChunks + 1
    /\ lastFrame' = [trackId |-> tr, nonSilent |-> nonSilent, frame |-> nChunks + 1]
    /\ UNCHANGED <<globalAudioQueueIntervalsSet, wsAudio>>

\* the 'ended' listener of the track: frames already read from the track can
\* still reach transform until the stream is flushed
TrackEnded(tr) ==
    /\ audioTracks[tr].started
    /\ ~audioTracks[tr].trackEnded
    /\ audioTracks' = [audioTracks EXCEPT ![tr].intervalActive = FALSE,
                                          ![tr].trackEnded = TRUE]
    /\ wsJson' = Append(wsJson, [type |-> "AudioTrackEnded", trackId |-> tr])
    /\ UNCHANGED <<globalAudioQueueIntervalsSet, wsAudio, nChunks, lastFrame>>

\* flush of the TransformStream: the readable side of the track has closed
Flush(tr) ==
    /\ audioTracks[tr].started
    /\ ~audioTracks[tr].streamClosed
    /\ audioTracks' = [audioTracks EXCEPT ![tr].intervalActive = FALSE,
                                          ![tr].streamClosed = TRUE]
    /\ wsJson' = Append(wsJson, [type |-> "AudioQueueFlush", trackId |-> tr])
    /\ UNCHANGED <<globalAudioQueueIntervalsSet, wsAudio, nChunks, lastFrame>>

\* the .catch of the pipeTo promise: the pipeline has failed
PipelineError(tr) ==
    /\ audioTracks[tr].started
    /\ ~audioTracks[tr].streamClosed
    /\ audioTracks' = [audioTracks EXCEPT ![tr].intervalActive = FALSE,
                                          ![tr].streamClosed = TRUE]
    /\ UNCHANGED <<globalAudioQueueIntervalsSet, wsAudio, wsJson, nChunks, lastFrame>>

----------------------------------------------------------------------------
(* Map objects, kept as sequences of entries in insertion order *)

MapHas(map, key) == \E i \in 1..Len(map) : map[i].key = key

MapGet(map, key) == map[CHOOSE i \in 1..Len(map) : map[i].key = key].value

\* Map.prototype.set: an existing key keeps its place
MapSet(map, key, value) ==
    IF MapHas(map, key)
    THEN [i \in 1..Len(map) |->
            IF map[i].key = key THEN [key |-> key, value |-> value] ELSE map[i]]
    ELSE Append(map, [key |-> key, value |-> value])

MapDelete(map, key) == SelectSeq(map, LAMBDA e : e.key # key)

ObjectSet(obj, key, value) ==
    [k \in DOMAIN obj \cup {key} |-> IF k = key THEN value ELSE obj[k]]

ObjectDelete(obj, key) == [k \in DOMAIN obj \ {key} |-> obj[k]]

----------------------------------------------------------------------------
(* Session descriptions.  A description is the sequence of its media        *)
(* sections; a section holds its a=ssrc lines and its a=x-source-streamid   *)
(* lines as parseSDP collects them.                                         *)

\* an ssrc line is "<ssrc> <attribute>:<value> ..."; only msid names a stream
extractMSID(rawSSRCEntry) ==
    IF rawSSRCEntry.attribute = "msid" THEN rawSSRCEntry.value ELSE Null

\* [...new Set(list)]
RECURSIVE Unique(_)
Unique(list) ==
    IF list = <<>> THEN <<>>
    ELSE LET front == Unique(SubSeq(list, 1, Len(list) - 1))
             last == list[Len(list)]
         IN IF \E i \in 1..Len(front) : front[i] = last
            THEN front ELSE Append(front, last)

\* the entries one media section contributes, without the de-duplication
MappingOfMediaEntryPerLine(sdpMediaEntry) ==
    LET msids == [i \in 1..Len(sdpMediaEntry.ssrc) |-> extractMSID(sdpMediaEntry.ssrc[i])]
        usable == SelectSeq(msids, LAMBDA ssrc : ssrc # Null /\ ssrc # "")
    IN IF Len(sdpMediaEntry.streamIds) = 0 \/ sdpMediaEntry.streamIds[1] = ""
       THEN <<>>
       ELSE [i \in 1..Len(usable) |->
               [clientStreamId |-> sdpMediaEntry.streamIds[1],
                serverStreamId |-> usable[i]]]

\* the entries a media section with no roster-correlation id contributes if
\* the missing id is not tested
MappingOfMediaEntryUnchecked(sdpMediaEntry) ==
    LET msids == Unique([i \in 1..Len(sdpMediaEntry.ssrc) |->
                            extractMSID(sdpMediaEntry.ssrc[i])])
        usable == SelectSeq(msids, LAMBDA ssrc : ssrc # Null /\ ssrc # "")
        streamId == IF Len(sdpMediaEntry.streamIds) = 0 THEN Null
                    ELSE sdpMediaEntry.streamIds[1]
    IN [i \in 1..Len(usable) |->
           [clientStreamId |-> streamId, serverStreamId |-> usable[i]]]

\* the body of the loop over parsedSDP.media
MappingOfMediaEntry(sdpMediaEntry) ==
    LET msids == Unique([i \in 1..Len(sdpMediaEntry.ssrc) |->
                            extractMSID(sdpMediaEntry.ssrc[i])])
        usable == SelectSeq(msids, LAMBDA ssrc : ssrc # Null /\ ssrc # "")
    IN IF Len(sdpMediaEntry.streamIds) = 0 \/ sdpMediaEntry.streamIds[1] = ""
       THEN <<>>
       ELSE [i \in 1..Len(usable) |->
               [clientStreamId |-> sdpMediaEntry.streamIds[1],
                serverStreamId |-> usable[i]]]

RECURSIVE extractStreamIdToSSRCMappingFromSDP(_)
extractStreamIdToSSRCMappingFromSDP(sdp) ==
    IF sdp = <<>> THEN <<>>
    ELSE extractStreamIdToSSRCMappingFromSDP(SubSeq(sdp, 1, Len(sdp) - 1))
            \o MappingOfMediaEntry(sdp[Len(sdp)])

----------------------------------------------------------------------------
(* VirtualStreamToPhysicalStreamMappingManager, as operators on the record  *)
(* m of its five fields                                                     *)

NewManager ==
    [virtualStreams |-> <<>>,
     physicalStreamsByClientStreamId |-> <<>>,
     physicalStreamsByServerStreamId |-> <<>>,
     physicalClientStreamIdToVirtualStreamIdMapping |-> EmptyObject,
     virtualStreamIdToPhysicalClientStreamIdMapping |-> EmptyObject]

RECURSIVE upsertPhysicalStreams(_, _)
upsertPhysicalStreams(m, physicalStreams) ==
    IF physicalStreams = <<>> THEN m
    ELSE LET physicalStream == Head(physicalStreams)
         IN upsertPhysicalStreams(
               [m EXCEPT !.physicalStreamsByClientStreamId =
                             MapSet(@, physicalStream.clientStreamId, physicalStream),
                         !.physicalStreamsByServerStreamId =
                             MapSet(@, physicalStream.serverStreamId, physicalStream)],
               Tail(physicalStreams))

\* an upsert that appends
upsertVirtualStreamAppending(m, virtualStream) ==
    [m EXCEPT !.virtualStreams =
         Append(@, [key |-> virtualStream.sourceId, value |-> virtualStream])]

upsertVirtualStream(m, virtualStream) ==
    [m EXCEPT !.virtualStreams = MapSet(@, virtualStream.sourceId, virtualStream)]

\* a removal that also forgets the links of the streams it removes
removeVirtualStreamsAndLinks(m, participantId) ==
    LET removed == {m.virtualStreams[i].key :
                       i \in {j \in 1..Len(m.virtualStreams) :
                                 m.virtualStreams[j].value.participant = participantId}}
        inverse == m.virtualStreamIdToPhysicalClientStreamIdMapping
        main == m.physicalClientStreamIdToVirtualStreamIdMapping
    IN [m EXCEPT !.virtualStreams =
                     SelectSeq(@, LAMBDA e : e.value.participant # participantId),
                 !.virtualStreamIdToPhysicalClientStreamIdMapping =
                     [k \in DOMAIN inverse \ removed |-> inverse[k]],
                 !.physicalClientStreamIdToVirtualStreamIdMapping =
                     [k \in {d \in DOMAIN main : main[d] \notin removed} |-> main[k]]]

removeVirtualStreamsForParticipant(m, participantId) ==
    [m EXCEPT !.virtualStreams =
         SelectSeq(@, LAMBDA e : e.value.participant # participantId)]

\* a sentinel delete that looks the inverse entry up by the description id
unlinkByDescriptionId(m, physicalClientStreamId) ==
    [m EXCEPT !.virtualStreamIdToPhysicalClientStreamIdMapping =
                  ObjectDelete(@, physicalClientStreamId),
              !.physicalClientStreamIdToVirtualStreamIdMapping =
                  ObjectDelete(@, physicalClientStreamId)]

\* the branch of upsertPhysicalClientStreamIdToVirtualStreamIdMapping taken
\* for the virtual stream id '-1'
unlink(m, physicalClientStreamId) ==
    LET main == m.physicalClientStreamIdToVirtualStreamIdMapping
    IN [m EXCEPT !.virtualStreamIdToPhysicalClientStreamIdMapping =
                     IF physicalClientStreamId \in DOMAIN main
                     THEN ObjectDelete(@, main[physicalClientStreamId])
                     ELSE @,
                 !.physicalClientStreamIdToVirtualStreamIdMapping =
                     ObjectDelete(@, physicalClientStreamId)]

LogsMissingEntryNever(m, physicalClientStreamId, virtualStreamId) == FALSE

\* the sentinel delete finds no entry and calls realConsole.error
LogsMissingEntry(m, physicalClientStreamId, virtualStreamId) ==
    /\ virtualStreamId = "-1"
    /\ physicalClientStreamId \notin DOMAIN m.physicalClientStreamIdToVirtualStreamIdMapping

upsertPhysicalClientStreamIdToVirtualStreamIdMapping(m, physicalClientStreamId, virtualStreamId) ==
    IF virtualStreamId = "-1"
    THEN unlink(m, physicalClientStreamId)
    ELSE [m EXCEPT !.physicalClientStreamIdToVirtualStreamIdMapping =
                       ObjectSet(@, physicalClientStreamId, virtualStreamId),
                   !.virtualStreamIdToPhysicalClientStreamIdMapping =
                       ObjectSet(@, virtualStreamId, physicalClientStreamId)]

\* item is the controlInfo of a source request; a missing field is Null
processSourceRequest(m, item) ==
    IF item.sourceId = Null \/ item.streamMsid = Null
    THEN m
    ELSE upsertPhysicalClientStreamIdToVirtualStreamIdMapping(
             m, item.streamMsid, item.sourceId)

RECURSIVE upsertMediaStreams(_, _, _)
upsertMediaStreams(m, participantId, mediaStreams) ==
    IF mediaStreams = <<>> THEN m
    ELSE LET mediaStream == Head(mediaStreams)
         IN upsertMediaStreams(
               upsertVirtualStream(m,
                   [sourceId |-> mediaStream.sourceId,
                    type |-> mediaStream.type,
                    direction |-> mediaStream.direction,
                    participant |-> participantId,
                    isScreenShare |-> mediaStream.type = "applicationsharing-video",
                    isWebcam |-> mediaStream.type = "video",
                    isActive |-> mediaStream.direction \in {"sendrecv", "sendonly"}]),
               participantId, Tail(mediaStreams))

\* participant.mediaStreams are the media streams of all its endpoints
syncVirtualStreamsFromParticipant(m, participant) ==
    IF participant.state = "inactive"
    THEN removeVirtualStreamsForParticipant(m, participant.id)
    ELSE upsertMediaStreams(m, participant.id, participant.mediaStreams)

virtualStreamIdToParticipant(m, virtualStreamId) ==
    IF MapHas(m.virtualStreams, virtualStreamId)
    THEN MapGet(m.virtualStreams, virtualStreamId).participant
    ELSE Null

\* DominantSpeakerManager.getDominantSpeaker
getDominantSpeaker(m, streamId) == virtualStreamIdToParticipant(m, streamId)

MapValues(map) == [i \in 1..Len(map) |-> map[i].value]

\* the filter of the loop over virtualStreams.values()
HasPhysicalStreamAndIsNotBot(m, virtualStream) ==
    /\ virtualStream.isScreenShare \/ virtualStream.isWebcam
    /\ virtualStream.sourceId \notin DOMAIN m.physicalClientStreamIdToVirtualStreamIdMapping
    /\ virtualStream.sourceId \in DOMAIN m.virtualStreamIdToPhysicalClientStreamIdMapping

virtualSteamsThatHavePhysicalStreams(m) ==
    SelectSeq(MapValues(m.virtualStreams),
              LAMBDA virtualStream : HasPhysicalStreamAndIsNotBot(m, virtualStream))

\* the selection with the dominant speaker's webcam ranked first
PickDominantSpeakerFirst(m, streamId) ==
    LET streams == virtualSteamsThatHavePhysicalStreams(m)
        screenShares == SelectSeq(streams, LAMBDA v : v.isScreenShare /\ v.isActive)
        dominantSpeaker == getDominantSpeaker(m, streamId)
        dominantSpeakerVideoStreams ==
            SelectSeq(streams, LAMBDA v : /\ v.participant = dominantSpeaker
                                          /\ v.isWebcam /\ v.isActive)
    IN IF Len(streams) = 0 THEN Null
       ELSE IF dominantSpeaker # Null /\ Len(dominantSpeakerVideoStreams) > 0
       THEN dominantSpeakerVideoStreams[1].sourceId
       ELSE IF Len(screenShares) > 0 THEN screenShares[1].sourceId
       ELSE streams[1].sourceId

getVirtualVideoStreamIdToSend(m, streamId) ==
    LET streams == virtualSteamsThatHavePhysicalStreams(m)
        screenShares == SelectSeq(streams, LAMBDA v : v.isScreenShare /\ v.isActive)
        dominantSpeaker == getDominantSpeaker(m, streamId)
        dominantSpeakerVideoStreams ==
            SelectSeq(streams, LAMBDA v : /\ v.participant = dominantSpeaker
                                          /\ v.isWebcam /\ v.isActive)
    IN IF Len(streams) = 0 THEN Null
       ELSE IF Len(screenShares) > 0 THEN screenShares[1].sourceId
       ELSE IF dominantSpeaker # Null /\ Len(dominantSpeakerVideoStreams) > 0
       THEN dominantSpeakerVideoStreams[1].sourceId
       ELSE streams[1].sourceId

\* physicalServerStreamId.includes('Video'), for the stream names in use
IncludesVideo(physicalServerStreamId) == physicalServerStreamId \in {"Video1", "Video2"}

\* a lookup of the physical stream under the virtual stream id itself
getVideoStreamIdToSendByVirtualId(m, streamId) ==
    LET virtualVideoStreamIdToSend == getVirtualVideoStreamIdToSend(m, streamId)
        videoKeys == SelectSeq(m.physicalStreamsByServerStreamId,
                               LAMBDA e : IncludesVideo(e.key))
    IN IF virtualVideoStreamIdToSend = Null
       THEN IF Len(videoKeys) > 0 THEN videoKeys[1].key ELSE Null
       ELSE IF MapHas(m.physicalStreamsByClientStreamId, virtualVideoStreamIdToSend)
       THEN MapGet(m.physicalStreamsByClientStreamId,
                   virtualVideoStreamIdToSend).serverStreamId
       ELSE Null

getVideoStreamIdToSend(m, streamId) ==
    LET virtualVideoStreamIdToSend == getVirtualVideoStreamIdToSend(m, streamId)
        videoKeys == SelectSeq(m.physicalStreamsByServerStreamId,
                               LAMBDA e : IncludesVideo(e.key))
    IN IF virtualVideoStreamIdToSend = Null
       THEN IF Len(videoKeys) > 0 THEN videoKeys[1].key ELSE Null
       ELSE LET physicalClientStreamId ==
                    m.virtualStreamIdToPhysicalClientStreamIdMapping[
                        virtualVideoStreamIdToSend]
            IN IF MapHas(m.physicalStreamsByClientStreamId, physicalClientStreamId)
               THEN MapGet(m.physicalStreamsByClientStreamId,
                           physicalClientStreamId).serverStreamId
               ELSE Null

\* the manager as the variables hold it
Manager ==
    [virtualStreams |-> virtualStreams,
     physicalStreamsByClientStreamId |-> physicalStreamsByClientStreamId,
     physicalStreamsByServerStreamId |-> physicalStreamsByServerStreamId,
     physicalClientStreamIdToVirtualStreamIdMapping |->
         physicalClientStreamIdToVirtualStreamIdMapping,
     virtualStreamIdToPhysicalClientStreamIdMapping |->
         virtualStreamIdToPhysicalClientStreamIdMapping]

\* the handler leaves the manager as m
ManagerBecomes(m) ==
    /\ virtualStreams' = m.virtualStreams
    /\ physicalStreamsByClientStreamId' = m.physicalStreamsByClientStreamId
    /\ physicalStreamsByServerStreamId' = m.physicalStreamsByServerStreamId
    /\ physicalClientStreamIdToVirtualStreamIdMapping' =
           m.physicalClientStreamIdToVirtualStreamIdMapping
    /\ virtualStreamIdToPhysicalClientStreamIdMapping' =
           m.virtualStreamIdToPhysicalClientStreamIdMapping

\* peerConnection.setRemoteDescription
SetRemoteDescription(sdp) ==
    /\ ManagerBecomes(upsertPhysicalStreams(Manager,
                          extractStreamIdToSSRCMappingFromSDP(sdp)))
    /\ UNCHANGED <<dominantSpeakerStreamId, nConsoleErrors>>

\* the body of the loop of handleRosterUpdate for one participant
HandleRosterUpdate(participant) ==
    /\ ManagerBecomes(syncVirtualStreamsFromParticipant(Manager, participant))
    /\ UNCHANGED <<dominantSpeakerStreamId, nConsoleErrors>>

\* handleMainChannelSend for one source request
HandleSourceRequest(item) ==
    /\ ManagerBecomes(processSourceRequest(Manager, item))
    /\ nConsoleErrors' =
          IF /\ item.sourceId # Null /\ item.streamMsid # Null
             /\ LogsMissingEntry(Manager, item.streamMsid, item.sourceId)
          THEN nConsoleErrors + 1 ELSE nConsoleErrors
    /\ UNCHANGED dominantSpeakerStreamId

processDominantSpeakerHistoryMessage(streamId) ==
    /\ dominantSpeakerStreamId' = streamId
    /\ UNCHANGED <<managerVars, nConsoleErrors>>

----------------------------------------------------------------------------
(* Video relay: handleVideoTrack *)

VideoTracks == {"V1", "V2", "V3"}

\* event.streams[0]?.id of each track; V3 arrives without a stream
StreamsOfVideoTrack ==
    [tr \in VideoTracks |->
        CASE tr = "V1" -> <<"Video1">>
          [] tr = "V2" -> <<"Video2">>
          [] OTHER -> <<>>]

NoVideoTrack == [started |-> FALSE, firstStreamId |-> Null, lastFrameTime |-> 0]

\* time is counted in thirds of a millisecond, so that 1000 / 24 ms is exact
TicksPerMs == 3
targetFPS == 24
frameInterval == (1000 * TicksPerMs) \div targetFPS

\* Math.floor(currentTime * 1000): microseconds
VideoTimestamp(currentTime) == (currentTime * 1000) \div TicksPerMs

VideoFrames ==
    {[displayWidth |-> 640, displayHeight |-> 360],
     [displayWidth |-> 1280, displayHeight |-> 720]}

\* a transform call that is handed no frame
NullVideoFrame == [displayWidth |-> 0, displayHeight |-> 0]

HandleVideoTrack(tr) ==
    /\ ~videoTracks[tr].started
    /\ videoTracks' =
          [videoTracks EXCEPT ![tr] =
              [started |-> TRUE,
               firstStreamId |-> IF Len(StreamsOfVideoTrack[tr]) > 0
                                 THEN StreamsOfVideoTrack[tr][1] ELSE Null,
               lastFrameTime |-> 0]]
    /\ UNCHANGED <<perfNow, wsVideo, nVideoFrames>>

IsSelectedVideoTrackAny(firstStreamId, videoStreamIdToSend) == TRUE

\* firstStreamId && firstStreamId === getVideoStreamIdToSend()
IsSelectedVideoTrack(firstStreamId, videoStreamIdToSend) ==
    firstStreamId # Null /\ firstStreamId = videoStreamIdToSend

\* one call of the transform of track tr; each entry of wsVideo also records
\* the track and the value of performance.now() the transform read
VideoTransform(tr, frame, desiredSizeNull) ==
    LET st == videoTracks[tr]
        currentTime == perfNow
    IN /\ st.started
       /\ nVideoFrames' = nVideoFrames + 1
       /\ IF frame = NullVideoFrame \/ desiredSizeNull
          THEN UNCHANGED <<videoTracks, wsVideo>>
          ELSE IF /\ IsSelectedVideoTrack(st.firstStreamId,
                        getVideoStreamIdToSend(Manager, dominantSpeakerStreamId))
                  /\ currentTime - st.lastFrameTime >= frameInterval
               THEN /\ wsVideo' = Append(wsVideo,
                          [timestamp |-> VideoTimestamp(currentTime),
                           streamId |-> st.firstStreamId,
                           width |-> frame.displayWidth,
                           height |-> frame.displayHeight,
                           track |-> tr,
                           currentTime |-> currentTime])
                    /\ videoTracks' = [videoTracks EXCEPT ![tr].lastFrameTime = currentTime]
               ELSE UNCHANGED <<videoTracks, wsVideo>>
       /\ UNCHANGED perfNow

----------------------------------------------------------------------------
(* Output scheduler: BotOutputManager.playPCMAudio and _processAudioQueue *)

NoTimer == 0
HoldMs == 2000

NewOutputManager ==
    [audioQueue |-> <<>>,
     isPlayingAudioQueue |-> FALSE,
     nextPlayTime |-> 0,
     turnOffMicTimeout |-> NoTimer,
     timers |-> {},
     nextTimerId |-> 1,
     sourceStarts |-> <<>>,
     micSignals |-> <<>>]

\* setTimeout(callback, delay) at time t; the id returned is o.nextTimerId
SetTimeout(o, kind, delay, t) ==
    [o EXCEPT !.timers = @ \cup {[id |-> o.nextTimerId, kind |-> kind,
                                  due |-> t + delay, armedAt |-> t]},
              !.nextTimerId = @ + 1]

\* clearTimeout(id)
ClearTimeout(o, id) == [o EXCEPT !.timers = {tm \in @ : tm.id # id}]

Max(a, b) == IF a >= b THEN a ELSE b

\* audioData.length / (numChannels * sampleRate), in ms
DurationOf(pcm) == (pcm.length * 1000) \div (pcm.numChannels * pcm.sampleRate)

\* (nextPlayTime - currentTime) * 1000 * 0.8, as the whole number of
\* milliseconds setTimeout takes
TimeUntilNextProcessMs(playTime, currentTime) ==
    ((playTime - currentTime) * 8) \div 10

\* an empty-queue branch that leaves isPlayingAudioQueue as it is
HoldStillPlaying(o, currentTime) ==
    [SetTimeout(o, "hold", HoldMs, currentTime) EXCEPT
        !.turnOffMicTimeout = o.nextTimerId]

\* the empty-queue branch of _processAudioQueue
Hold(o, currentTime) ==
    LET cleared == IF o.turnOffMicTimeout # NoTimer
                   THEN ClearTimeout(o, o.turnOffMicTimeout) ELSE o
        armed == SetTimeout([cleared EXCEPT !.isPlayingAudioQueue = FALSE],
                            "hold", HoldMs, currentTime)
    IN [armed EXCEPT !.turnOffMicTimeout = cleared.nextTimerId]

\* nextPlayTime after the catch-up test that never catches up
AnchorKept(playTime, currentTime) == playTime

\* nextPlayTime after the catch-up test
Anchor(playTime, currentTime) ==
    IF playTime = 0 \/ playTime < currentTime THEN currentTime ELSE playTime

\* nextPlayTime that is not advanced
PlayTimeKept(playTime, duration) == playTime

\* this.nextPlayTime += duration
PlayTimeAfter(playTime, duration) == playTime + duration

_processAudioQueue(o, currentTime) ==
    IF Len(o.audioQueue) = 0
    THEN Hold(o, currentTime)
    ELSE LET playTime == Anchor(o.nextPlayTime, currentTime)
             chunk == Head(o.audioQueue)
             started ==
                 [o EXCEPT !.isPlayingAudioQueue = TRUE,
                           !.audioQueue = Tail(@),
                           !.sourceStarts = Append(@, [id |-> chunk.id,
                                                       when |-> playTime,
                                                       duration |-> chunk.duration,
                                                       currentTime |-> currentTime]),
                           !.nextPlayTime = PlayTimeAfter(playTime, chunk.duration)]
         IN SetTimeout(started, "drain",
                       Max(0, TimeUntilNextProcessMs(started.nextPlayTime, currentTime)),
                       currentTime)

\* playPCMAudio that leaves a pending mic-off timer alone
KeepHold(o) == o

\* playPCMAudio that pushes the chunk and leaves the queue to a drain timer
playPCMAudioOnlyQueues(o, id, pcm, currentTime) ==
    [o EXCEPT !.micSignals = Append(@, [signal |-> "on", at |-> currentTime]),
              !.audioQueue = Append(@, [id |-> id, duration |-> (pcm.length * 1000)
                                           \div (pcm.numChannels * pcm.sampleRate)])]

\* playPCMAudio: cancel a pending mic-off timer
CancelHold(o) ==
    IF o.turnOffMicTimeout # NoTimer
    THEN [ClearTimeout(o, o.turnOffMicTimeout) EXCEPT !.turnOffMicTimeout = NoTimer]
    ELSE o

playPCMAudio(o, id, pcm, currentTime) ==
    LET micOn == [o EXCEPT !.micSignals = Append(@, [signal |-> "on", at |-> currentTime])]
        pushed == [micOn EXCEPT !.audioQueue =
                       Append(@, [id |-> id, duration |-> DurationOf(pcm)])]
        cancelled == CancelHold(pushed)
    IN IF ~cancelled.isPlayingAudioQueue
       THEN _processAudioQueue(cancelled, currentTime)
       ELSE cancelled

\* the callback of the mic-off timer
HoldCallback(o, tm, currentTime) ==
    IF Len(o.audioQueue) = 0
    THEN [o EXCEPT !.micSignals =
              Append(@, [signal |-> "off", at |-> currentTime])]
    ELSE o

OutputManager ==
    [audioQueue |-> audioQueue,
     isPlayingAudioQueue |-> isPlayingAudioQueue,
     nextPlayTime |-> nextPlayTime,
     turnOffMicTimeout |-> turnOffMicTimeout,
     timers |-> timers,
     nextTimerId |-> nextTimerId,
     sourceStarts |-> sourceStarts,
     micSignals |-> micSignals]

OutputBecomesInitially(o) ==
    /\ audioQueue = o.audioQueue
    /\ isPlayingAudioQueue = o.isPlayingAudioQueue
    /\ nextPlayTime = o.nextPlayTime
    /\ turnOffMicTimeout = o.turnOffMicTimeout
    /\ timers = o.timers
    /\ nextTimerId = o.nextTimerId
    /\ sourceStarts = o.sourceStarts
    /\ micSignals = o.micSignals

OutputBecomes(o) ==
    /\ audioQueue' = o.audioQueue
    /\ isPlayingAudioQueue' = o.isPlayingAudioQueue
    /\ nextPlayTime' = o.nextPlayTime
    /\ turnOffMicTimeout' = o.turnOffMicTimeout
    /\ timers' = o.timers
    /\ nextTimerId' = o.nextTimerId
    /\ sourceStarts' = o.sourceStarts
    /\ micSignals' = o.micSignals

----------------------------------------------------------------------------
(* Wire messages: the send operations of WebSocketClient *)

MESSAGE_TYPES ==
    [JSON |-> 1, VIDEO |-> 2, AUDIO |-> 3, ENCODED_MP4_CHUNK |-> 4,
     PER_PARTICIPANT_AUDIO |-> 5]

\* byte k (from 0) of the two's complement representation of v
ByteOf(v, k) ==
    CASE k = 0 -> v % 256
      [] k = 1 -> (v \div 256) % 256
      [] k = 2 -> (v \div 65536) % 256
      [] k = 3 -> (v \div 16777216) % 256
      [] OTHER -> IF v < 0 THEN 255 ELSE 0

\* DataView.setInt32(offset, v, true)
Int32LE(v) == [k \in 1..4 |-> ByteOf(v, k - 1)]

\* DataView.setBigInt64(offset, BigInt(v), true), for v of at most 31 bits
BigInt64LE(v) == [k \in 1..8 |-> ByteOf(v, k - 1)]

\* DataView.setUint8(offset, v) keeps the low byte of v
Uint8(v) == <<v % 256>>

\* the UTF-8 bytes of one code point of the basic plane
Utf8OfCodePoint(c) ==
    IF c < 128 THEN <<c>>
    ELSE IF c < 2048 THEN <<192 + (c \div 64), 128 + (c % 64)>>
    ELSE <<224 + (c \div 4096), 128 + ((c \div 64) % 64), 128 + (c % 64)>>

\* new TextEncoder().encode(string); a string is the sequence of its code points
RECURSIVE TextEncode(_)
TextEncode(string) ==
    IF string = <<>> THEN <<>>
    ELSE IF Len(string) = 1 THEN Utf8OfCodePoint(string[1])
    ELSE LET half == Len(string) \div 2
         IN TextEncode(SubSeq(string, 1, half))
               \o TextEncode(SubSeq(string, half + 1, Len(string)))

WireField(name, bytes) == [name |-> name, bytes |-> bytes]

RECURSIVE BytesOf(_)
BytesOf(fields) ==
    IF fields = <<>> THEN <<>> ELSE Head(fields).bytes \o BytesOf(Tail(fields))

\* what each send operation writes into its message, field after field;
\* jsonString stands for JSON.stringify(data)
sendJsonFields(jsonString) ==
    <<WireField("type", Int32LE(MESSAGE_TYPES.JSON)),
      WireField("json", TextEncode(jsonString))>>

sendMixedAudioFields(timestamp, audioData) ==
    <<WireField("type", Int32LE(MESSAGE_TYPES.AUDIO)),
      WireField("audioData", audioData)>>

PerParticipantAudioLength(participantIdBytes) == Uint8(Len(participantIdBytes))

sendPerParticipantAudioFields(participantId, audioData) ==
    LET participantIdBytes == TextEncode(participantId)
    IN <<WireField("type", Int32LE(MESSAGE_TYPES.PER_PARTICIPANT_AUDIO)),
         WireField("participantIdLength", PerParticipantAudioLength(participantIdBytes)),
         WireField("participantId", participantIdBytes),
         WireField("audioData", audioData)>>

sendAudioFields(timestamp, streamId, audioData) ==
    <<WireField("type", Int32LE(MESSAGE_TYPES.AUDIO)),
      WireField("timestamp", BigInt64LE(timestamp)),
      WireField("streamId", Int32LE(streamId)),
      WireField("audioData", audioData)>>

sendVideoFields(timestamp, streamId, width, height, videoData) ==
    LET streamIdBytes == TextEncode(streamId)
    IN <<WireField("type", Int32LE(MESSAGE_TYPES.VIDEO)),
         WireField("timestamp", BigInt64LE(timestamp)),
         WireField("streamIdLength", Int32LE(Len(streamIdBytes))),
         WireField("streamId", streamIdBytes),
         WireField("width", Int32LE(width)),
         WireField("height", Int32LE(height)),
         WireField("videoData", videoData)>>

\* the arguments of a send operation; an operation leaves the ones it does
\* not take at these values
NoArgs ==
    [text |-> <<>>, timestamp |-> 0, id |-> <<>>, streamId |-> 0,
     width |-> 0, height |-> 0, payload |-> <<>>]

FieldsOfSend(op, args) ==
    CASE op = "sendJson" -> sendJsonFields(args.text)
      [] op = "sendMixedAudio" -> sendMixedAudioFields(args.timestamp, args.payload)
      [] op = "sendPerParticipantAudio" ->
            sendPerParticipantAudioFields(args.id, args.payload)
      [] op = "sendAudio" -> sendAudioFields(args.timestamp, args.streamId, args.payload)
      [] OTHER -> sendVideoFields(args.timestamp, args.id, args.width, args.height,
                                  args.payload)

\* one call of a send operation: nothing is sent unless the socket is open
\* and, for every operation but sendJson, media sending is enabled
Send(op, args) ==
    /\ nSends' = nSends + 1
    /\ IF wsReadyState # "OPEN"
       THEN /\ nWsErrors' = nWsErrors + 1
            /\ UNCHANGED wsMessages
       ELSE IF op # "sendJson" /\ ~mediaSendingEnabled
       THEN UNCHANGED <<wsMessages, nWsErrors>>
       ELSE /\ wsMessages' = Append(wsMessages,
                  [op |-> op, args |-> args,
                   fields |-> FieldsOfSend(op, args),
                   bytes |-> BytesOf(FieldsOfSend(op, args))])
            /\ UNCHANGED nWsErrors
    /\ UNCHANGED <<wsReadyState, mediaSendingEnabled>>

\* the receiving side, which reads a message by the layout documented for
\* its type tag
ByteAt(bytes, i) == IF i <= Len(bytes) THEN bytes[i] ELSE 0

\* DataView.getInt32(offset, true)
GetInt32(bytes, offset) ==
    ByteAt(bytes, offset + 1) + 256 * ByteAt(bytes, offset + 2)
       + 65536 * ByteAt(bytes, offset + 3)
       + 16777216 * (IF ByteAt(bytes, offset + 4) >= 128
                     THEN ByteAt(bytes, offset + 4) - 256
                     ELSE ByteAt(bytes, offset + 4))

\* a 64-bit integer whose value fits 32 bits
GetBigInt64(bytes, offset) == GetInt32(bytes, offset)

Slice(bytes, first, last) ==
    IF first > Len(bytes) THEN <<>>
    ELSE SubSeq(bytes, first, IF last > Len(bytes) THEN Len(bytes) ELSE last)

\* the code point that starts at byte i
CodePointAt(bytes, i) ==
    IF bytes[i] < 128 THEN bytes[i]
    ELSE IF bytes[i] < 224
         THEN (bytes[i] - 192) * 64 + (ByteAt(bytes, i + 1) - 128)
         ELSE (bytes[i] - 224) * 4096 + (ByteAt(bytes, i + 1) - 128) * 64
                 + (ByteAt(bytes, i + 2) - 128)

\* new TextDecoder().decode(bytes), for well-formed UTF-8 of the basic plane:
\* one code point for every byte that is not a continuation byte
TextDecode(bytes) ==
    LET leads == {i \in 1..Len(bytes) : bytes[i] < 128 \/ bytes[i] >= 192}
        continuations == Len(bytes) - Cardinality(leads)
    IN IF continuations = 0
       THEN bytes
       ELSE [k \in 1..Cardinality(leads) |->
                CodePointAt(bytes,
                    CHOOSE i \in leads : Cardinality({j \in leads : j <= i}) = k)]

NoDecoded ==
    [tag |-> 0, text |-> <<>>, timestamp |-> 0, id |-> <<>>,
     width |-> 0, height |-> 0, payload |-> <<>>]

Decode(bytes) ==
    LET tag == GetInt32(bytes, 0)
        n == Len(bytes)
    IN CASE tag = MESSAGE_TYPES.JSON ->
              [NoDecoded EXCEPT !.tag = tag, !.text = TextDecode(Slice(bytes, 5, n))]
         [] tag = MESSAGE_TYPES.VIDEO ->
              LET idLength == GetInt32(bytes, 12)
              IN [NoDecoded EXCEPT
                     !.tag = tag,
                     !.timestamp = GetBigInt64(bytes, 4),
                     !.id = TextDecode(Slice(bytes, 17, 16 + idLength)),
                     !.width = GetInt32(bytes, 16 + idLength),
                     !.height = GetInt32(bytes, 20 + idLength),
                     !.payload = Slice(bytes, 25 + idLength, n)]
         [] tag = MESSAGE_TYPES.AUDIO ->
              [NoDecoded EXCEPT !.tag = tag,
                                !.timestamp = GetBigInt64(bytes, 4),
                                !.payload = Slice(bytes, 13, n)]
         [] tag = MESSAGE_TYPES.PER_PARTICIPANT_AUDIO ->
              LET idLength == ByteAt(bytes, 5)
              IN [NoDecoded EXCEPT !.tag = tag,
                                   !.id = TextDecode(Slice(bytes, 6, 5 + idLength)),
                                   !.payload = Slice(bytes, 6 + idLength, n)]
         [] OTHER -> [NoDecoded EXCEPT !.tag = tag]

----------------------------------------------------------------------------
(* Caption messages: TranscriptMessageFinalizationManager *)

\* userId.toString() of the user ids of the model
UserIdToString(userId) ==
    CASE userId = 1 -> "1"
      [] userId = 2 -> "2"
      [] OTHER -> "0"

\* message.text ? message.text.replace(/\x00/g, '') : ''; a text is the
\* sequence of its code points
TextOf(text) == SelectSeq(text, LAMBDA c : c # 0)

\* the argument sendMessage passes to ws.sendClosedCaptionUpdate
messageConverted(message) ==
    [deviceId |-> UserIdToString(message.userId),
     captionId |-> message.msgId,
     text |-> TextOf(message.text),
     isFinal |-> message.done]

\* addMessage that does not finalize the message it replaces
ReplaceSilently(t, message) == t

\* addMessage, up to the point where the new message is stored: an active
\* message of the user with another msgId is sent once more as done and removed
FinalizeExisting(t, message) ==
    IF /\ MapHas(t.activeMessages, message.userId)
       /\ MapGet(t.activeMessages, message.userId).msgId # message.msgId
    THEN [activeMessages |-> MapDelete(t.activeMessages, message.userId),
          captionUpdates |->
              Append(t.captionUpdates,
                     messageConverted([MapGet(t.activeMessages, message.userId)
                                          EXCEPT !.done = TRUE]))]
    ELSE t

addMessage(t, message) ==
    LET finalized == FinalizeExisting(t, message)
        stored == [finalized EXCEPT
                      !.activeMessages = MapSet(@, message.userId, message),
                      !.captionUpdates = Append(@, messageConverted(message))]
    IN IF message.done
       THEN [stored EXCEPT !.activeMessages = MapDelete(@, message.userId)]
       ELSE stored

----------------------------------------------------------------------------
(* Caption ids: UtteranceIdGenerator *)

\* the generator right after its constructor
NewUtteranceIdGenerator == [activeIds |-> <<>>, generated |-> 0]

\* this._generate(), by default crypto.randomUUID(): an id no earlier call
\* returned; the k-th id is the number k
Generate(g) == g.generated + 1

\* a generator that has forgotten the ids it handed out
ActiveIdForgotten(g, speakerKey) == 0

\* this._activeIds.get(speakerKey); 0 stands for undefined
ActiveId(g, speakerKey) ==
    IF MapHas(g.activeIds, speakerKey) THEN MapGet(g.activeIds, speakerKey) ELSE 0

\* next(speakerKey, isFinal): the generator after the call, and the id returned
next(g, speakerKey, isFinal) ==
    LET id == ActiveId(g, speakerKey)
    IN IF id = 0
       THEN [activeIds |-> IF ~isFinal
                           THEN MapSet(g.activeIds, speakerKey, Generate(g))
                           ELSE g.activeIds,
             generated |-> g.generated + 1,
             id |-> Generate(g)]
       ELSE [activeIds |-> IF isFinal
                           THEN MapDelete(g.activeIds, speakerKey)
                           ELSE g.activeIds,
             generated |-> g.generated,
             id |-> id]

----------------------------------------------------------------------------
(* Initial states *)

\* the state right after the constructor of UtteranceIdGenerator
InitUtterance ==
    /\ _activeIds = NewUtteranceIdGenerator.activeIds
    /\ nGenerated = NewUtteranceIdGenerator.generated
    /\ utteranceCalls = <<>>

\* the state right after the constructor of TranscriptMessageFinalizationManager
InitTranscript ==
    /\ activeMessages = <<>>
    /\ captionUpdates = <<>>
    /\ nMessages = 0

\* the state right after the constructor of WebSocketClient
InitWire ==
    /\ wsReadyState = "CONNECTING"
    /\ mediaSendingEnabled = FALSE
    /\ wsMessages = <<>>
    /\ nWsErrors = 0
    /\ nSends = 0

\* the state right after the constructor of BotOutputManager
InitOutput ==
    /\ outNow = 0
    /\ OutputBecomesInitially(NewOutputManager)
    /\ enqueues = <<>>
    /\ lateDrains = 0

\* no video track has been handed to handleVideoTrack
InitMedia ==
    /\ perfNow = 0
    /\ videoTracks = [tr \in VideoTracks |-> NoVideoTrack]
    /\ wsVideo = <<>>
    /\ nVideoFrames = 0
    /\ InitOutput
    /\ InitWire
    /\ InitTranscript
    /\ InitUtterance

\* the state right after the constructors of the two managers
InitStore ==
    /\ virtualStreams = <<>>
    /\ physicalStreamsByClientStreamId = <<>>
    /\ physicalStreamsByServerStreamId = <<>>
    /\ physicalClientStreamIdToVirtualStreamIdMapping = EmptyObject
    /\ virtualStreamIdToPhysicalClientStreamIdMapping = EmptyObject
    /\ dominantSpeakerStreamId = Null
    /\ nConsoleErrors = 0
    /\ delivered = [sdp |-> <<>>, roster |-> <<>>, selection |-> <<>>, order |-> <<>>]
    /\ nEvents = 0
    /\ InitMedia

Init ==
    /\ now = 0
    /\ receiverMap = <<>>
    /\ machines = [p \in Participants |-> NoMachine]
    /\ machineOrder = <<>>
    /\ speechIntervals = <<>>
    /\ captionAudioTimes = <<>>
    /\ nPolls = 0
    /\ audioTracks = [tr \in AudioTracks |-> NoTrack]
    /\ globalAudioQueueIntervalsSet = {}
    /\ wsAudio = <<>>
    /\ wsJson = <<>>
    /\ nChunks = 0
    /\ lastFrame = NoFrame
    /\ InitStore

\* one audio receiver has been registered and has become active
InitOneActiveReceiver ==
    /\ now = 0
    /\ receiverMap = <<[receiver |-> "R1", isActive |-> TRUE]>>
    /\ machines = [p \in Participants |-> NoMachine]
    /\ machineOrder = <<>>
    /\ speechIntervals = <<>>
    /\ captionAudioTimes = <<>>
    /\ nPolls = 0
    /\ audioTracks = [tr \in AudioTracks |-> NoTrack]
    /\ globalAudioQueueIntervalsSet = {}
    /\ wsAudio = <<>>
    /\ wsJson = <<>>
    /\ nChunks = 0
    /\ lastFrame = NoFrame
    /\ InitStore

----------------------------------------------------------------------------
(* Specification SpecSM: one receiver, one talking participant, polls that  *)
(* may come late or back to back                                            *)

TalkersSM == {"P1"}
StepsSM == {0, PollPeriodMs}

SM_AddReceiver ==
    /\ AddReceiver("R1")
    /\ UNCHANGED <<now, captionAudioTimes>>
    /\ UNCHANGED audioVars
    /\ UNCHANGED storeVars

SM_Poll ==
    /\ nPolls < MaxPollsSM
    /\ \E src \in [ReceiversIn(receiverMap) -> SourceInputs(TalkersSM)], dt \in StepsSM :
          /\ PollReceivers(src)
          /\ now' = now + dt
    /\ UNCHANGED captionAudioTimes
    /\ UNCHANGED audioVars
    /\ UNCHANGED storeVars

NextSM == SM_AddReceiver \/ SM_Poll

SpecSM == Init /\ [][NextSM]_vars

----------------------------------------------------------------------------
(* Specification SpecScenario: an active receiver polled every 100 ms       *)

Scenario_Poll ==
    /\ nPolls < MaxPollsScenario
    /\ \E src \in [ReceiversIn(receiverMap) -> SourceInputs(TalkersSM)] :
          /\ PollReceivers(src)
          /\ now' = now + PollPeriodMs
    /\ UNCHANGED captionAudioTimes
    /\ UNCHANGED audioVars
    /\ UNCHANGED storeVars

NextScenario == Scenario_Poll

SpecScenario == InitOneActiveReceiver /\ [][NextScenario]_vars

----------------------------------------------------------------------------
(* Specification SpecReported: on every poll the contributing sources of an  *)
(* active receiver report P1 as speaking, while a second receiver may be    *)
(* registered and become active                                             *)

\* the receivers that are active when the poll begins
ActiveReceivers(rm) == {rm[i].receiver : i \in {j \in 1..Len(rm) : rm[j].isActive}}

Reported_AddReceiver ==
    /\ \E r \in Receivers : AddReceiver(r)
    /\ UNCHANGED <<now, captionAudioTimes>>
    /\ UNCHANGED audioVars
    /\ UNCHANGED storeVars

Reported_Poll ==
    /\ nPolls < MaxPollsReported
    /\ \E src \in [ReceiversIn(receiverMap) -> SourceInputs(TalkersSM)] :
          /\ \E r \in ActiveReceivers(receiverMap) : "P1" \in src[r].speaking
          /\ PollReceivers(src)
          /\ now' = now + PollPeriodMs
    /\ UNCHANGED captionAudioTimes
    /\ UNCHANGED audioVars
    /\ UNCHANGED storeVars

NextReported == Reported_AddReceiver \/ Reported_Poll

\* the interval set by startPollingReceivers keeps calling pollReceivers:
\* weak fairness of Reported_Poll
SpecReported ==
    /\ InitOneActiveReceiver
    /\ [][NextReported]_vars
    /\ WF_vars(Reported_Poll)

----------------------------------------------------------------------------
(* Specification SpecQuery: two talking participants on one receiver polled *)
(* every 100 ms, and caption ground truth arriving in any order             *)

TalkersQuery == {"P1", "P2"}
CaptionTimes == {100, 300}
\* the participants the ground truth names: a talker and a participant who is
\* never heard long enough to open an interval
CaptionSpeakersQuery == {"P2", "P3"}
MaxQueryTick == 7
QueryTimes == {100 * k : k \in -1..MaxQueryTick}

Query_AddReceiver ==
    /\ AddReceiver("R1")
    /\ UNCHANGED <<now, captionAudioTimes>>
    /\ UNCHANGED audioVars
    /\ UNCHANGED storeVars

Query_Poll ==
    /\ nPolls < MaxPollsQuery
    /\ \E src \in [ReceiversIn(receiverMap) -> SourceInputs(TalkersQuery)] :
          /\ PollReceivers(src)
          /\ now' = now + PollPeriodMs
    /\ UNCHANGED captionAudioTimes
    /\ UNCHANGED audioVars
    /\ UNCHANGED storeVars

Query_AddCaption ==
    /\ Len(captionAudioTimes) < MaxCaptionsQuery
    /\ \E t \in CaptionTimes, p \in CaptionSpeakersQuery : AddCaption(t, p)
    /\ UNCHANGED now
    /\ UNCHANGED attributionVars
    /\ UNCHANGED audioVars
    /\ UNCHANGED storeVars

NextQuery == Query_AddReceiver \/ Query_Poll \/ Query_AddCaption

SpecQuery == Init /\ [][NextQuery]_vars

----------------------------------------------------------------------------
(* Specification SpecLegacy: attribution from caption ground truth alone    *)

LegacyCaptionTimes == {0, 200, 400}

Legacy_AddCaption ==
    /\ Len(captionAudioTimes) < MaxCaptionsLegacy
    /\ \E t \in LegacyCaptionTimes, p \in Participants : AddCaption(t, p)
    /\ UNCHANGED now
    /\ UNCHANGED attributionVars
    /\ UNCHANGED audioVars
    /\ UNCHANGED storeVars

NextLegacy == Legacy_AddCaption

SpecLegacy == Init /\ [][NextLegacy]_vars

----------------------------------------------------------------------------
(* Specification SpecAudio: one audio track whose frames and queue polls    *)
(* arrive at any times of a 100 ms grid.  It starts either before the track *)
(* is handled, with nobody ever heard, or with the track handled and P1     *)
(* having just entered SPEAKING on five true samples at 19600..20000        *)

AudioEpochMs == 20000
TickAudioMs == 500
StepsAudio == {PollPeriodMs, TickAudioMs}

P1SpeakingSamples ==
    [i \in 1..5 |-> [isSpeaking |-> TRUE,
                     timestamp |-> AudioEpochMs - (5 - i) * PollPeriodMs]]

InitAudioFresh ==
    /\ now = AudioEpochMs
    /\ receiverMap = <<>>
    /\ machines = [p \in Participants |-> NoMachine]
    /\ machineOrder = <<>>
    /\ speechIntervals = <<>>
    /\ captionAudioTimes = <<>>
    /\ nPolls = 0
    /\ audioTracks = [tr \in AudioTracks |-> NoTrack]
    /\ globalAudioQueueIntervalsSet = {}
    /\ wsAudio = <<>>
    /\ wsJson = <<>>
    /\ nChunks = 0
    /\ lastFrame = NoFrame
    /\ InitStore

InitAudioP1Speaking ==
    /\ now = AudioEpochMs
    /\ receiverMap = <<[receiver |-> "R1", isActive |-> TRUE]>>
    /\ machines = [p \in Participants |->
                     IF p = "P1"
                     THEN [created |-> TRUE, state |-> "SPEAKING",
                           samples |-> P1SpeakingSamples]
                     ELSE NoMachine]
    /\ machineOrder = <<"P1">>
    /\ speechIntervals =
          <<[speakerId |-> "P1",
             intervals |-> <<[type |-> "start",
                              timestampMs |-> AudioEpochMs - 4 * PollPeriodMs]>>]>>
    /\ captionAudioTimes = <<>>
    /\ nPolls = 6
    /\ audioTracks = [tr \in AudioTracks |->
                        IF tr = "A1" THEN StartedTrack ELSE NoTrack]
    /\ globalAudioQueueIntervalsSet = {"A1"}
    /\ wsAudio = <<>>
    /\ wsJson = <<>>
    /\ nChunks = 0
    /\ lastFrame = NoFrame
    /\ InitStore

InitAudio == InitAudioFresh \/ InitAudioP1Speaking

Audio_HandleTrack ==
    /\ HandleAudioTrack("A1")
    /\ UNCHANGED <<now, captionAudioTimes>>
    /\ UNCHANGED storeVars

Audio_Frame ==
    /\ nChunks < MaxChunksAudio
    /\ \E nonSilent \in BOOLEAN : Transform("A1", nonSilent)
    /\ UNCHANGED <<now, captionAudioTimes>>
    /\ UNCHANGED attributionVars
    /\ UNCHANGED storeVars

Audio_ProcessQueue ==
    /\ ProcessAudioQueue("A1")
    /\ UNCHANGED <<now, captionAudioTimes>>
    /\ UNCHANGED attributionVars
    /\ UNCHANGED storeVars

Audio_Tick ==
    /\ \E dt \in StepsAudio :
          /\ now + dt <= AudioEpochMs + MaxTicksAudio * TickAudioMs
          /\ now' = now + dt
    /\ UNCHANGED captionAudioTimes
    /\ UNCHANGED attributionVars
    /\ UNCHANGED audioVars
    /\ UNCHANGED storeVars

NextAudio == Audio_HandleTrack \/ Audio_Frame \/ Audio_ProcessQueue \/ Audio_Tick

SpecAudio == InitAudio /\ [][NextAudio]_vars

----------------------------------------------------------------------------
(* Specification SpecAudioTracks: two audio tracks that start, deliver      *)
(* frames and reach their end of life in any order                          *)

Tracks_Handle ==
    /\ \E tr \in AudioTracks : HandleAudioTrack(tr)
    /\ UNCHANGED <<now, captionAudioTimes>>
    /\ UNCHANGED storeVars

Tracks_Frame ==
    /\ nChunks < MaxChunksTracks
    /\ \E tr \in AudioTracks, nonSilent \in BOOLEAN : Transform(tr, nonSilent)
    /\ UNCHANGED <<now, captionAudioTimes>>
    /\ UNCHANGED attributionVars
    /\ UNCHANGED storeVars

Tracks_ProcessQueue ==
    /\ \E tr \in AudioTracks : ProcessAudioQueue(tr)
    /\ UNCHANGED <<now, captionAudioTimes>>
    /\ UNCHANGED attributionVars
    /\ UNCHANGED storeVars

Tracks_Ended ==
    /\ \E tr \in AudioTracks : TrackEnded(tr)
    /\ UNCHANGED <<now, captionAudioTimes>>
    /\ UNCHANGED attributionVars
    /\ UNCHANGED storeVars

Tracks_Flush ==
    /\ \E tr \in AudioTracks : Flush(tr)
    /\ UNCHANGED <<now, captionAudioTimes>>
    /\ UNCHANGED attributionVars
    /\ UNCHANGED storeVars

Tracks_PipelineError ==
    /\ \E tr \in AudioTracks : PipelineError(tr)
    /\ UNCHANGED <<now, captionAudioTimes>>
    /\ UNCHANGED attributionVars
    /\ UNCHANGED storeVars

Tracks_Tick ==
    /\ now + ACTIVE_SPEAKER_LATENCY_MS
          <= AudioEpochMs + MaxTicksTracks * ACTIVE_SPEAKER_LATENCY_MS
    /\ now' = now + ACTIVE_SPEAKER_LATENCY_MS
    /\ UNCHANGED captionAudioTimes
    /\ UNCHANGED attributionVars
    /\ UNCHANGED audioVars
    /\ UNCHANGED storeVars

NextAudioTracks ==
    \/ Tracks_Handle \/ Tracks_Frame \/ Tracks_ProcessQueue
    \/ Tracks_Ended \/ Tracks_Flush \/ Tracks_PipelineError \/ Tracks_Tick

SpecAudioTracks == InitAudioFresh /\ [][NextAudioTracks]_vars

----------------------------------------------------------------------------
(* Specification SpecAudioTracksFair: as SpecAudioTracks, and time goes on   *)
(* while a chunk waits for its latency, and the interval callbacks run      *)

\* a chunk at the head of a queue has not waited for the latency yet
SomeChunkTooYoung ==
    \E tr \in AudioTracks :
       /\ Len(audioTracks[tr].audioDataQueue) > 0
       /\ ~IsEligible(now, audioTracks[tr].audioDataQueue[1])

\* time passes until the chunks in the queues have waited for the latency
Tracks_Elapse ==
    /\ SomeChunkTooYoung
    /\ now' = now + ACTIVE_SPEAKER_LATENCY_MS
    /\ UNCHANGED captionAudioTimes
    /\ UNCHANGED attributionVars
    /\ UNCHANGED audioVars
    /\ UNCHANGED storeVars

\* the interval callback of one track
Tracks_ProcessQueueOf(tr) ==
    /\ ProcessAudioQueue(tr)
    /\ UNCHANGED <<now, captionAudioTimes>>
    /\ UNCHANGED attributionVars
    /\ UNCHANGED storeVars

NextAudioTracksFair ==
    \/ Tracks_Handle \/ Tracks_Frame \/ Tracks_ProcessQueue
    \/ Tracks_Ended \/ Tracks_Flush \/ Tracks_PipelineError \/ Tracks_Elapse

\* time passes, and an interval that is set calls its callback
SpecAudioTracksFair ==
    /\ InitAudioFresh
    /\ [][NextAudioTracksFair]_vars
    /\ WF_vars(Tracks_Elapse)
    /\ \A tr \in AudioTracks : WF_vars(Tracks_ProcessQueueOf(tr))

----------------------------------------------------------------------------
(* Specification SpecStore: session descriptions, roster updates, source    *)
(* requests and dominant speaker messages reach the manager in any order,   *)
(* and the latest event of a source may be delivered again                  *)

SsrcLine(ssrc, attribute, value) ==
    [ssrc |-> ssrc, attribute |-> attribute, value |-> value]

\* one video section whose two ssrc numbers carry the same msid
SdpDuplicateSsrc ==
    <<[ssrc |-> <<SsrcLine(1, "cname", "c1"), SsrcLine(1, "msid", "Video1"),
                  SsrcLine(2, "cname", "c1"), SsrcLine(2, "msid", "Video1")>>,
       streamIds |-> <<"55">>]>>

\* a section without x-source-streamid, a section without msid and a
\* well-formed section
SdpPartlyMalformed ==
    <<[ssrc |-> <<SsrcLine(3, "cname", "c2"), SsrcLine(3, "msid", "Audio1")>>,
       streamIds |-> <<>>],
      [ssrc |-> <<SsrcLine(4, "cname", "c3")>>, streamIds |-> <<"57">>],
      [ssrc |-> <<SsrcLine(5, "cname", "c4"), SsrcLine(5, "msid", "Video2")>>,
       streamIds |-> <<"56">>]>>

\* stream id 55 is bound to another msid
SdpRebind ==
    <<[ssrc |-> <<SsrcLine(6, "msid", "Video2")>>, streamIds |-> <<"55">>]>>

SessionDescriptions == {SdpDuplicateSsrc, SdpPartlyMalformed, SdpRebind}

MediaStream(sourceId, type, direction) ==
    [sourceId |-> sourceId, type |-> type, direction |-> direction]

RosterP1Webcam ==
    [state |-> "active", id |-> "P1",
     mediaStreams |-> <<MediaStream("9", "video", "sendrecv")>>]
RosterP2WebcamAndAudio ==
    [state |-> "active", id |-> "P2",
     mediaStreams |-> <<MediaStream("10", "video", "sendrecv"),
                        MediaStream("12", "audio", "sendrecv")>>]
RosterP2ScreenShare ==
    [state |-> "active", id |-> "P2",
     mediaStreams |-> <<MediaStream("11", "applicationsharing-video", "sendonly")>>]
RosterP2ScreenShareStopped ==
    [state |-> "active", id |-> "P2",
     mediaStreams |-> <<MediaStream("11", "applicationsharing-video", "inactive")>>]
RosterP1Left == [state |-> "inactive", id |-> "P1", mediaStreams |-> <<>>]

RosterUpdates ==
    {RosterP1Webcam, RosterP2WebcamAndAudio, RosterP2ScreenShare,
     RosterP2ScreenShareStopped, RosterP1Left}

SourceRequest(streamMsid, sourceId) == [streamMsid |-> streamMsid, sourceId |-> sourceId]

\* requests for the two video receivers, a request that names a roster id as
\* its local stream, and a request without source id
SourceRequests ==
    {SourceRequest("55", "9"), SourceRequest("55", "10"), SourceRequest("56", "10"),
     SourceRequest("56", "11"), SourceRequest("55", "-1"), SourceRequest("56", "-1"),
     SourceRequest("10", "9"), SourceRequest("55", Null)}

DominantSpeakerStreamIds == {"12", "13"}

\* the events of a meeting that has been running: two video receivers, two
\* participants with their webcams, each requested on one receiver
MeetingHistory ==
    [sdp |-> <<SdpDuplicateSsrc, SdpPartlyMalformed>>,
     roster |-> <<RosterP1Webcam, RosterP2WebcamAndAudio>>,
     selection |-> <<SourceRequest("55", "9"), SourceRequest("56", "10")>>,
     order |-> <<"sdp", "sdp", "roster", "roster", "selection", "selection">>]

RECURSIVE ApplySdps(_, _)
ApplySdps(m, sdps) ==
    IF sdps = <<>> THEN m
    ELSE ApplySdps(upsertPhysicalStreams(m, extractStreamIdToSSRCMappingFromSDP(Head(sdps))),
                   Tail(sdps))

RECURSIVE ApplyRosterUpdates(_, _)
ApplyRosterUpdates(m, participants) ==
    IF participants = <<>> THEN m
    ELSE ApplyRosterUpdates(syncVirtualStreamsFromParticipant(m, Head(participants)),
                            Tail(participants))

RECURSIVE ApplySourceRequests(_, _)
ApplySourceRequests(m, items) ==
    IF items = <<>> THEN m
    ELSE ApplySourceRequests(processSourceRequest(m, Head(items)), Tail(items))

\* the manager after the events of history, one source after the other
ManagerAfter(history) ==
    ApplySourceRequests(
        ApplyRosterUpdates(ApplySdps(NewManager, history.sdp), history.roster),
        history.selection)

InitStoreFresh ==
    /\ now = 0
    /\ receiverMap = <<>>
    /\ machines = [p \in Participants |-> NoMachine]
    /\ machineOrder = <<>>
    /\ speechIntervals = <<>>
    /\ captionAudioTimes = <<>>
    /\ nPolls = 0
    /\ audioTracks = [tr \in AudioTracks |-> NoTrack]
    /\ globalAudioQueueIntervalsSet = {}
    /\ wsAudio = <<>>
    /\ wsJson = <<>>
    /\ nChunks = 0
    /\ lastFrame = NoFrame
    /\ InitStore

InitStoreMeeting ==
    /\ now = 0
    /\ receiverMap = <<>>
    /\ machines = [p \in Participants |-> NoMachine]
    /\ machineOrder = <<>>
    /\ speechIntervals = <<>>
    /\ captionAudioTimes = <<>>
    /\ nPolls = 0
    /\ audioTracks = [tr \in AudioTracks |-> NoTrack]
    /\ globalAudioQueueIntervalsSet = {}
    /\ wsAudio = <<>>
    /\ wsJson = <<>>
    /\ nChunks = 0
    /\ lastFrame = NoFrame
    /\ virtualStreams = ManagerAfter(MeetingHistory).virtualStreams
    /\ physicalStreamsByClientStreamId =
           ManagerAfter(MeetingHistory).physicalStreamsByClientStreamId
    /\ physicalStreamsByServerStreamId =
           ManagerAfter(MeetingHistory).physicalStreamsByServerStreamId
    /\ physicalClientStreamIdToVirtualStreamIdMapping =
           ManagerAfter(MeetingHistory).physicalClientStreamIdToVirtualStreamIdMapping
    /\ virtualStreamIdToPhysicalClientStreamIdMapping =
           ManagerAfter(MeetingHistory).virtualStreamIdToPhysicalClientStreamIdMapping
    /\ dominantSpeakerStreamId = Null
    /\ nConsoleErrors = 0
    /\ delivered = MeetingHistory
    /\ nEvents = 0
    /\ InitMedia

InitStoreAny == InitStoreFresh \/ InitStoreMeeting

NonStoreVars == <<now, captionAudioTimes, attributionVars, audioVars, mediaVars>>

Store_SetRemoteDescription ==
    /\ nEvents < MaxStoreEvents
    /\ \E sdp \in SessionDescriptions :
          /\ SetRemoteDescription(sdp)
          /\ delivered' = [delivered EXCEPT !.sdp = Append(@, sdp),
                                            !.order = Append(@, "sdp")]
    /\ nEvents' = nEvents + 1
    /\ UNCHANGED NonStoreVars

Store_RosterUpdate ==
    /\ nEvents < MaxStoreEvents
    /\ \E participant \in RosterUpdates :
          /\ HandleRosterUpdate(participant)
          /\ delivered' = [delivered EXCEPT !.roster = Append(@, participant),
                                            !.order = Append(@, "roster")]
    /\ nEvents' = nEvents + 1
    /\ UNCHANGED NonStoreVars

Store_SourceRequest ==
    /\ nEvents < MaxStoreEvents
    /\ \E item \in SourceRequests :
          /\ HandleSourceRequest(item)
          /\ delivered' = [delivered EXCEPT !.selection = Append(@, item),
                                            !.order = Append(@, "selection")]
    /\ nEvents' = nEvents + 1
    /\ UNCHANGED NonStoreVars

Store_DominantSpeaker ==
    /\ \E streamId \in DominantSpeakerStreamIds :
          processDominantSpeakerHistoryMessage(streamId)
    /\ UNCHANGED <<delivered, nEvents>>
    /\ UNCHANGED NonStoreVars

Store_ReplaySdp ==
    /\ nEvents < MaxStoreEvents
    /\ Len(delivered.sdp) > 0
    /\ SetRemoteDescription(delivered.sdp[Len(delivered.sdp)])
    /\ nEvents' = nEvents + 1
    /\ delivered' = [delivered EXCEPT !.order = Append(@, "sdp again")]
    /\ UNCHANGED NonStoreVars

Store_ReplayRoster ==
    /\ nEvents < MaxStoreEvents
    /\ Len(delivered.roster) > 0
    /\ HandleRosterUpdate(delivered.roster[Len(delivered.roster)])
    /\ nEvents' = nEvents + 1
    /\ delivered' = [delivered EXCEPT !.order = Append(@, "roster again")]
    /\ UNCHANGED NonStoreVars

Store_ReplaySourceRequest ==
    /\ nEvents < MaxStoreEvents
    /\ Len(delivered.selection) > 0
    /\ HandleSourceRequest(delivered.selection[Len(delivered.selection)])
    /\ nEvents' = nEvents + 1
    /\ delivered' = [delivered EXCEPT !.order = Append(@, "selection again")]
    /\ UNCHANGED NonStoreVars

NextStore ==
    \/ Store_SetRemoteDescription \/ Store_RosterUpdate \/ Store_SourceRequest
    \/ Store_DominantSpeaker \/ Store_ReplaySdp \/ Store_ReplayRoster
    \/ Store_ReplaySourceRequest

SpecStore == InitStoreAny /\ [][NextStore]_vars

----------------------------------------------------------------------------
(* Specification SpecLink: a fresh manager receives, in any order and       *)
(* possibly more than once, the session description of receiver 55, the     *)
(* source request of 55 for roster id 9, the roster update that declares 9  *)
(* an active webcam of P2 and the roster update of a participant nobody     *)
(* has requested                                                            *)

RosterP2Webcam9 ==
    [state |-> "active", id |-> "P2",
     mediaStreams |-> <<MediaStream("9", "video", "sendrecv")>>]
RosterP1Webcam10 ==
    [state |-> "active", id |-> "P1",
     mediaStreams |-> <<MediaStream("10", "video", "sendrecv")>>]

LinkRosterUpdates == {RosterP2Webcam9, RosterP1Webcam10}

Link_SetRemoteDescription ==
    /\ nEvents < MaxLinkEvents
    /\ SetRemoteDescription(SdpDuplicateSsrc)
    /\ delivered' = [delivered EXCEPT !.sdp = Append(@, SdpDuplicateSsrc),
                                      !.order = Append(@, "sdp")]
    /\ nEvents' = nEvents + 1
    /\ UNCHANGED NonStoreVars

Link_RosterUpdate ==
    /\ nEvents < MaxLinkEvents
    /\ \E participant \in LinkRosterUpdates :
          /\ HandleRosterUpdate(participant)
          /\ delivered' = [delivered EXCEPT !.roster = Append(@, participant),
                                            !.order = Append(@, "roster")]
    /\ nEvents' = nEvents + 1
    /\ UNCHANGED NonStoreVars

Link_SourceRequest ==
    /\ nEvents < MaxLinkEvents
    /\ HandleSourceRequest(SourceRequest("55", "9"))
    /\ delivered' = [delivered EXCEPT !.selection = Append(@, SourceRequest("55", "9")),
                                      !.order = Append(@, "selection")]
    /\ nEvents' = nEvents + 1
    /\ UNCHANGED NonStoreVars

Link_DominantSpeaker ==
    /\ \E streamId \in DominantSpeakerStreamIds :
          processDominantSpeakerHistoryMessage(streamId)
    /\ UNCHANGED <<delivered, nEvents>>
    /\ UNCHANGED NonStoreVars

NextLink ==
    \/ Link_SetRemoteDescription \/ Link_RosterUpdate \/ Link_SourceRequest
    \/ Link_DominantSpeaker

SpecLink == InitStoreFresh /\ [][NextLink]_vars

----------------------------------------------------------------------------
(* Specification SpecResolve: two webcams are requested on two receivers    *)
(* while only the session description of receiver 56 has arrived            *)

ResolveRosterUpdates == {RosterP1Webcam, RosterP2WebcamAndAudio}

ResolveSourceRequests == {SourceRequest("55", "9"), SourceRequest("56", "10")}

Resolve_SetRemoteDescription ==
    /\ nEvents < MaxResolveEvents
    /\ SetRemoteDescription(SdpPartlyMalformed)
    /\ delivered' = [delivered EXCEPT !.sdp = Append(@, SdpPartlyMalformed),
                                      !.order = Append(@, "sdp")]
    /\ nEvents' = nEvents + 1
    /\ UNCHANGED NonStoreVars

Resolve_RosterUpdate ==
    /\ nEvents < MaxResolveEvents
    /\ \E participant \in ResolveRosterUpdates :
          /\ HandleRosterUpdate(participant)
          /\ delivered' = [delivered EXCEPT !.roster = Append(@, participant),
                                            !.order = Append(@, "roster")]
    /\ nEvents' = nEvents + 1
    /\ UNCHANGED NonStoreVars

Resolve_SourceRequest ==
    /\ nEvents < MaxResolveEvents
    /\ \E item \in ResolveSourceRequests :
          /\ HandleSourceRequest(item)
          /\ delivered' = [delivered EXCEPT !.selection = Append(@, item),
                                            !.order = Append(@, "selection")]
    /\ nEvents' = nEvents + 1
    /\ UNCHANGED NonStoreVars

NextResolve ==
    Resolve_SetRemoteDescription \/ Resolve_RosterUpdate \/ Resolve_SourceRequest

SpecResolve == InitStoreFresh /\ [][NextResolve]_vars

----------------------------------------------------------------------------
(* Specification SpecVideo: three video tracks deliver frames during a       *)
(* meeting in which the dominant speaker, and with it the video source to   *)
(* send, changes                                                            *)

\* performance.now() moves on by 20 ms, by 1000/24 ms less a third of a
\* millisecond, or by 1000/24 ms
VideoTicks == {60, 124, 125}

Video_HandleTrack ==
    /\ \E tr \in VideoTracks : HandleVideoTrack(tr)
    /\ UNCHANGED <<relayVars, outputVars, wireVars, transcriptVars, utteranceVars>>

Video_Frame ==
    /\ nVideoFrames < MaxVideoFrames
    /\ \E tr \in VideoTracks, frame \in VideoFrames \cup {NullVideoFrame},
          desiredSizeNull \in BOOLEAN :
          VideoTransform(tr, frame, desiredSizeNull)
    /\ UNCHANGED <<relayVars, outputVars, wireVars, transcriptVars, utteranceVars>>

Video_Tick ==
    /\ \E d \in VideoTicks :
          /\ perfNow + d <= MaxVideoTime
          /\ perfNow' = perfNow + d
    /\ UNCHANGED <<videoTracks, wsVideo, nVideoFrames>>
    /\ UNCHANGED <<relayVars, outputVars, wireVars, transcriptVars, utteranceVars>>

NextVideo ==
    Video_HandleTrack \/ Video_Frame \/ Video_Tick \/ Store_DominantSpeaker

SpecVideo == InitStoreMeeting /\ [][NextVideo]_vars

----------------------------------------------------------------------------
(* Specification SpecOutput: chunks are played through the virtual           *)
(* microphone while the timers of the output manager fire, on time or late  *)

\* half a second of mono audio at 44100 Hz, a tenth of a second of the same,
\* and half a second of stereo audio at 48000 Hz
PcmInputs ==
    {[length |-> 22050, sampleRate |-> 44100, numChannels |-> 1],
     [length |-> 4410, sampleRate |-> 44100, numChannels |-> 1],
     [length |-> 48000, sampleRate |-> 48000, numChannels |-> 2]}

OutTicks == {700}

Out_Play ==
    /\ Len(enqueues) < MaxEnqueues
    /\ \E pcm \in PcmInputs :
          /\ OutputBecomes(playPCMAudio(OutputManager, Len(enqueues) + 1, pcm, outNow))
          /\ enqueues' = Append(enqueues, [id |-> Len(enqueues) + 1,
                                           duration |-> DurationOf(pcm),
                                           at |-> outNow])
    /\ UNCHANGED <<outNow, lateDrains>>
    /\ UNCHANGED <<relayVars, videoVars, wireVars, transcriptVars, utteranceVars>>

Out_DrainTimer ==
    /\ \E tm \in timers :
          /\ tm.kind = "drain"
          /\ tm.due <= outNow
          /\ OutputBecomes(_processAudioQueue(
                 [OutputManager EXCEPT !.timers = @ \ {tm}], outNow))
          /\ lateDrains' = lateDrains + (IF tm.due < outNow THEN 1 ELSE 0)
    /\ UNCHANGED <<outNow, enqueues>>
    /\ UNCHANGED <<relayVars, videoVars, wireVars, transcriptVars, utteranceVars>>

Out_HoldTimer ==
    /\ \E tm \in timers :
          /\ tm.kind = "hold"
          /\ tm.due <= outNow
          /\ OutputBecomes(HoldCallback(
                 [OutputManager EXCEPT !.timers = @ \ {tm}], tm, outNow))
    /\ UNCHANGED <<outNow, enqueues, lateDrains>>
    /\ UNCHANGED <<relayVars, videoVars, wireVars, transcriptVars, utteranceVars>>

\* the times at which a timer not yet due is to fire
PendingDues == {tm.due : tm \in {x \in timers : x.due > outNow}}

\* the clock moves on to the time of the next timer, or by a step
Out_Tick ==
    /\ \E t \in {due \in PendingDues : \A other \in PendingDues : due <= other}
                 \cup {outNow + d : d \in OutTicks} :
          /\ t > outNow
          /\ t <= MaxOutTime
          /\ outNow' = t
    /\ UNCHANGED <<outputManagerVars, enqueues, lateDrains>>
    /\ UNCHANGED <<relayVars, videoVars, wireVars, transcriptVars, utteranceVars>>

NextOutput == Out_Play \/ Out_DrainTimer \/ Out_HoldTimer \/ Out_Tick

SpecOutput == Init /\ [][NextOutput]_vars

----------------------------------------------------------------------------
(* Specification SpecOutputFair: as SpecOutput, and time goes on until the   *)
(* timers that are set have fired                                           *)

\* the clock reaches the time of the next timer
Out_TimerDue ==
    /\ \E t \in {due \in PendingDues : \A other \in PendingDues : due <= other} :
          outNow' = t
    /\ UNCHANGED <<outputManagerVars, enqueues, lateDrains>>
    /\ UNCHANGED <<relayVars, videoVars, wireVars, transcriptVars, utteranceVars>>

\* the clock moves on by a step, past the time of a timer or not
Out_Late ==
    /\ \E d \in OutTicks :
          /\ outNow + d <= MaxOutFairTime
          /\ outNow' = outNow + d
    /\ UNCHANGED <<outputManagerVars, enqueues, lateDrains>>
    /\ UNCHANGED <<relayVars, videoVars, wireVars, transcriptVars, utteranceVars>>

NextOutputFair ==
    Out_Play \/ Out_DrainTimer \/ Out_HoldTimer \/ Out_TimerDue \/ Out_Late

\* a timer that is set fires: the clock reaches its time and its callback runs
SpecOutputFair ==
    /\ Init
    /\ [][NextOutputFair]_vars
    /\ WF_vars(Out_TimerDue)
    /\ WF_vars(Out_DrainTimer)
    /\ WF_vars(Out_HoldTimer)

----------------------------------------------------------------------------
(* Specification SpecOutputLong: the output manager plays a long chunk       *)

\* twelve seconds of mono audio at 44100 Hz, and half a second of the same
LongPcmInputs ==
    {[length |-> 529200, sampleRate |-> 44100, numChannels |-> 1],
     [length |-> 22050, sampleRate |-> 44100, numChannels |-> 1]}

OutLongTicks == {5000}

OutLong_Play ==
    /\ Len(enqueues) < MaxLongEnqueues
    /\ \E pcm \in LongPcmInputs :
          /\ OutputBecomes(playPCMAudio(OutputManager, Len(enqueues) + 1, pcm, outNow))
          /\ enqueues' = Append(enqueues, [id |-> Len(enqueues) + 1,
                                           duration |-> DurationOf(pcm),
                                           at |-> outNow])
    /\ UNCHANGED <<outNow, lateDrains>>
    /\ UNCHANGED <<relayVars, videoVars, wireVars, transcriptVars, utteranceVars>>

\* the clock moves on to the time of the next timer, or by a step
OutLong_Tick ==
    /\ \E t \in {due \in PendingDues : \A other \in PendingDues : due <= other}
                 \cup {outNow + d : d \in OutLongTicks} :
          /\ t > outNow
          /\ t <= MaxOutLongTime
          /\ outNow' = t
    /\ UNCHANGED <<outputManagerVars, enqueues, lateDrains>>
    /\ UNCHANGED <<relayVars, videoVars, wireVars, transcriptVars, utteranceVars>>

NextOutputLong == OutLong_Play \/ Out_DrainTimer \/ Out_HoldTimer \/ OutLong_Tick

SpecOutputLong == Init /\ [][NextOutputLong]_vars

----------------------------------------------------------------------------
(* Specification SpecWire: the send operations are called with small and     *)
(* with extreme arguments while the socket opens and closes                 *)

\* "{}" and a text with a two-byte and a three-byte character
JsonStrings == {<<123, 125>>, <<34, 233, 8364, 34>>}

\* the empty identifier, "P1", one of 255 bytes and one of 256 bytes
ParticipantIds ==
    {<<>>, <<80, 49>>, [i \in 1..255 |-> 65], [i \in 1..256 |-> 65]}

\* the empty stream id and "V1"
VideoStreamIds == {<<>>, <<86, 49>>}

WireTimestamps == {0, 41666}

\* no sample, and the four bytes of the 32-bit float 1.0
WirePayloads == {<<>>, <<0, 0, 128, 63>>}

AudioStreamIds == {7}

Wire_Open ==
    /\ wsReadyState = "CONNECTING"
    /\ wsReadyState' = "OPEN"
    /\ UNCHANGED <<mediaSendingEnabled, wsMessages, nWsErrors, nSends>>
    /\ UNCHANGED <<relayVars, videoVars, outputVars, transcriptVars, utteranceVars>>

Wire_Close ==
    /\ wsReadyState # "CLOSED"
    /\ wsReadyState' = "CLOSED"
    /\ UNCHANGED <<mediaSendingEnabled, wsMessages, nWsErrors, nSends>>
    /\ UNCHANGED <<relayVars, videoVars, outputVars, transcriptVars, utteranceVars>>

\* enableMediaSending and disableMediaSending, as far as the flag goes
Wire_SetMediaSending ==
    /\ mediaSendingEnabled' = ~mediaSendingEnabled
    /\ UNCHANGED <<wsReadyState, wsMessages, nWsErrors, nSends>>
    /\ UNCHANGED <<relayVars, videoVars, outputVars, transcriptVars, utteranceVars>>

Wire_SendJson ==
    /\ nSends < MaxWireSends
    /\ \E text \in JsonStrings : Send("sendJson", [NoArgs EXCEPT !.text = text])
    /\ UNCHANGED <<relayVars, videoVars, outputVars, transcriptVars, utteranceVars>>

Wire_SendMixedAudio ==
    /\ nSends < MaxWireSends
    /\ \E timestamp \in WireTimestamps, audioData \in WirePayloads :
          Send("sendMixedAudio",
               [NoArgs EXCEPT !.timestamp = timestamp, !.payload = audioData])
    /\ UNCHANGED <<relayVars, videoVars, outputVars, transcriptVars, utteranceVars>>

Wire_SendPerParticipantAudio ==
    /\ nSends < MaxWireSends
    /\ \E participantId \in ParticipantIds, audioData \in WirePayloads :
          Send("sendPerParticipantAudio",
               [NoArgs EXCEPT !.id = participantId, !.payload = audioData])
    /\ UNCHANGED <<relayVars, videoVars, outputVars, transcriptVars, utteranceVars>>

Wire_SendAudio ==
    /\ nSends < MaxWireSends
    /\ \E timestamp \in WireTimestamps, streamId \in AudioStreamIds,
          audioData \in WirePayloads :
          Send("sendAudio",
               [NoArgs EXCEPT !.timestamp = timestamp, !.streamId = streamId,
                              !.payload = audioData])
    /\ UNCHANGED <<relayVars, videoVars, outputVars, transcriptVars, utteranceVars>>

Wire_SendVideo ==
    /\ nSends < MaxWireSends
    /\ \E timestamp \in WireTimestamps, streamId \in VideoStreamIds,
          frame \in VideoFrames, videoData \in WirePayloads :
          Send("sendVideo",
               [NoArgs EXCEPT !.timestamp = timestamp, !.id = streamId,
                              !.width = frame.displayWidth,
                              !.height = frame.displayHeight,
                              !.payload = videoData])
    /\ UNCHANGED <<relayVars, videoVars, outputVars, transcriptVars, utteranceVars>>

NextWire ==
    \/ Wire_Open \/ Wire_Close \/ Wire_SetMediaSending
    \/ Wire_SendJson \/ Wire_SendMixedAudio \/ Wire_SendPerParticipantAudio
    \/ Wire_SendAudio \/ Wire_SendVideo

SpecWire == Init /\ [][NextWire]_vars

----------------------------------------------------------------------------
(* Specification SpecTranscript: caption messages of two users arrive        *)

\* "hi", and "hi" with a NUL character in it
CaptionTexts == {<<104, 105>>, <<104, 0, 105>>}

CaptionMessages ==
    [userId : {1, 2}, msgId : {"a", "b"}, text : CaptionTexts, done : BOOLEAN]

Transcript_AddMessage ==
    /\ nMessages < MaxMessages
    /\ \E message \in CaptionMessages :
          LET t == addMessage([activeMessages |-> activeMessages,
                               captionUpdates |-> captionUpdates], message)
          IN /\ activeMessages' = t.activeMessages
             /\ captionUpdates' = t.captionUpdates
    /\ nMessages' = nMessages + 1
    /\ UNCHANGED <<relayVars, videoVars, outputVars, wireVars, utteranceVars>>

NextTranscript == Transcript_AddMessage

SpecTranscript == Init /\ [][NextTranscript]_vars

----------------------------------------------------------------------------
(* Specification SpecUtterance: caption chunks of two users and of a user    *)
(* without id ask for their caption id                                      *)

\* item.userId of the chunks; a chunk without userId uses the key 'default'
SpeakerKeys == {"1", "2", "default"}

Utterance_Next ==
    /\ Len(utteranceCalls) < MaxUtteranceCalls
    /\ \E speakerKey \in SpeakerKeys, isFinal \in BOOLEAN :
          LET g == next([activeIds |-> _activeIds, generated |-> nGenerated],
                        speakerKey, isFinal)
          IN /\ _activeIds' = g.activeIds
             /\ nGenerated' = g.generated
             /\ utteranceCalls' =
                    Append(utteranceCalls,
                           [speakerKey |-> speakerKey, isFinal |-> isFinal, id |-> g.id])
    /\ UNCHANGED <<relayVars, videoVars, outputVars, wireVars, transcriptVars>>

NextUtterance == Utterance_Next

SpecUtterance == Init /\ [][NextUtterance]_vars

----------------------------------------------------------------------------
(* Claims about the speaking state machine *)

\* number of true samples among the (at most five) most recent ones
TrueAmongRecent(samples) ==
    Cardinality({i \in 1..Len(samples) :
                    i > Len(samples) - 5 /\ samples[i].isSpeaking})

\* timestamp of the oldest of the five most recent samples
OldestOfRecent(samples) == samples[Len(samples) - 4].timestamp

C1_StateMatchesWindow ==
    \A p \in Participants :
        machines[p].created =>
            (machines[p].state = "SPEAKING"
                <=> (Len(machines[p].samples) >= 5
                       /\ TrueAmongRecent(machines[p].samples) >= 4))

C1_StartRecorded ==
    \A p \in Participants :
        (machines[p].state = "NOT_SPEAKING" /\ machines'[p].state = "SPEAKING")
          => IntervalsOf(speechIntervals', p)
               = Append(IntervalsOf(speechIntervals, p),
                        [type |-> "start",
                         timestampMs |-> OldestOfRecent(machines'[p].samples)])

\* C1: after every sample the state is SPEAKING iff at least 5 samples were
\* received and at least 4 of the most recent 5 are true; a step from
\* NOT_SPEAKING to SPEAKING appends exactly one 'start' interval stamped with
\* the timestamp of the oldest of those 5 samples.
C1_EnterSpeaking == [](C1_StateMatchesWindow) /\ [][C1_StartRecorded]_vars

\* P1 entered SPEAKING on a window whose oldest sample is not the first sample
\* of the machine
C1_Witness ==
    /\ machines["P1"].state = "SPEAKING"
    /\ Len(machines["P1"].samples) >= 6
    /\ TrueAmongRecent(machines["P1"].samples) = 4
    /\ Len(IntervalsOf(speechIntervals, "P1")) = 1
    /\ IntervalsOf(speechIntervals, "P1")[1].timestampMs
          > machines["P1"].samples[1].timestamp

C2_LeaveSpeaking_Step ==
    \A p \in Participants :
        (machines[p].state = "SPEAKING" /\ nPolls' = nPolls + 1)
          => /\ (machines'[p].state = "NOT_SPEAKING"
                   <=> TrueAmongRecent(machines'[p].samples) < 4)
             /\ (machines'[p].state = "NOT_SPEAKING"
                   => IntervalsOf(speechIntervals', p)
                        = Append(IntervalsOf(speechIntervals, p),
                                 [type |-> "end",
                                  timestampMs |->
                                      OldestOfRecent(machines'[p].samples) - 100]))
             /\ (machines'[p].state = "SPEAKING"
                   => IntervalsOf(speechIntervals', p) = IntervalsOf(speechIntervals, p))

\* C2: a SPEAKING participant moves to NOT_SPEAKING on a sample iff fewer than
\* 4 of the most recent 5 samples are true, and that step appends exactly one
\* 'end' interval stamped with the oldest of those 5 timestamps minus 100 ms.
C2_LeaveSpeaking == [][C2_LeaveSpeaking_Step]_vars

\* P1 has spoken and stopped: its list is a start followed by an end
C2_Witness ==
    /\ machines["P1"].state = "NOT_SPEAKING"
    /\ Len(IntervalsOf(speechIntervals, "P1")) = 2
    /\ IntervalsOf(speechIntervals, "P1")[2].type = "end"
    /\ IntervalsOf(speechIntervals, "P1")[2].timestampMs
          = OldestOfRecent(machines["P1"].samples) - 100

ScenarioSamples ==
    [i \in 1..10 |-> [isSpeaking |-> i \in {1, 2, 3, 5},
                      timestamp |-> (i - 1) * 100]]

ScenarioFirstHalf == SubSeq(ScenarioSamples, 1, 5)

\* C3 as stated: the five false samples at 500..900 close the interval at 400
C3_ScenarioAsStated ==
    /\ machines["P1"].samples = ScenarioFirstHalf
          => IntervalsOf(speechIntervals, "P1")
               = <<[type |-> "start", timestampMs |-> 0]>>
    /\ machines["P1"].samples = ScenarioSamples
          => IntervalsOf(speechIntervals, "P1")
               = <<[type |-> "start", timestampMs |-> 0],
                   [type |-> "end", timestampMs |-> 400]>>

\* C3 (amended): samples [true,true,true,false,true] at t=0..400 record a 'start'
\* at t=0; the first false sample, at t=500, already closes the interval, and
\* the 'end' is stamped 0 (the oldest of the last five samples, t=100, minus
\* 100 ms); the later false samples record nothing.
C3_Scenario ==
    /\ machines["P1"].samples = ScenarioFirstHalf
          => IntervalsOf(speechIntervals, "P1")
               = <<[type |-> "start", timestampMs |-> 0]>>
    /\ machines["P1"].samples = SubSeq(ScenarioSamples, 1, 6)
          => IntervalsOf(speechIntervals, "P1")
               = <<[type |-> "start", timestampMs |-> 0],
                   [type |-> "end", timestampMs |-> 0]>>
    /\ machines["P1"].samples = ScenarioSamples
          => IntervalsOf(speechIntervals, "P1")
               = <<[type |-> "start", timestampMs |-> 0],
                   [type |-> "end", timestampMs |-> 0]>>

C3_Witness == machines["P1"].samples = ScenarioSamples

\* C4: while a machine holds fewer than 5 samples it is NOT_SPEAKING and has
\* recorded no interval, whatever the sample values
C4_FewerThanFive ==
    \A p \in Participants :
        (machines[p].created /\ Len(machines[p].samples) < 5)
          => /\ machines[p].state = "NOT_SPEAKING"
             /\ ~HasIntervals(speechIntervals, p)

\* four samples, all of them true
C4_Witness ==
    /\ Len(machines["P1"].samples) = 4
    /\ \A i \in 1..4 : machines["P1"].samples[i].isSpeaking

\* the list begins with a 'start' and no two neighbours have the same type
Alternates(intervals) ==
    /\ Len(intervals) > 0 => intervals[1].type = "start"
    /\ \A i \in 1..(Len(intervals) - 1) : intervals[i].type # intervals[i + 1].type

\* C32: every participant's interval list alternates start, end, start, ...
\* beginning with a 'start', and its last event is a 'start' iff the
\* participant's state machine is SPEAKING
C32_IntervalsAlternate ==
    \A p \in Participants :
        LET intervals == IntervalsOf(speechIntervals, p)
        IN /\ Alternates(intervals)
           /\ (Len(intervals) > 0 /\ intervals[Len(intervals)].type = "start")
                 <=> machines[p].state = "SPEAKING"

\* P1 spoke, stopped and speaks again
C32_Witness ==
    /\ machines["P1"].state = "SPEAKING"
    /\ Len(IntervalsOf(speechIntervals, "P1")) = 3
    /\ IntervalsOf(speechIntervals, "P1")[2].type = "end"

\* C33: in every participant's interval list the timestamps are
\* non-decreasing in list order, also when samples are less than 100 ms apart
C33_TimestampsNonDecreasing ==
    \A p \in Participants :
        LET intervals == IntervalsOf(speechIntervals, p)
        IN \A i \in 1..(Len(intervals) - 1) :
              intervals[i].timestampMs <= intervals[i + 1].timestampMs

----------------------------------------------------------------------------
(* Claims about the attribution queries *)

speakerAt(T) ==
    getSpeakerIdForTimestampMsUsingSpeechIntervals(speechIntervals, captionAudioTimes, T)

EventsAtOrBefore(p, T) ==
    {i \in 1..Len(IntervalsOf(speechIntervals, p)) :
        IntervalsOf(speechIntervals, p)[i].timestampMs <= T}

LastOf(S) == CHOOSE i \in S : \A j \in S : j <= i

\* the last interval event of p with a timestamp at or before T is a 'start'
IsOpenAt(p, T) ==
    /\ EventsAtOrBefore(p, T) # {}
    /\ IntervalsOf(speechIntervals, p)[LastOf(EventsAtOrBefore(p, T))].type = "start"

OpenSet(T) == {p \in Participants : IsOpenAt(p, T)}

\* timestamp of the most recent 'start' of p at or before T
StartOf(p, T) ==
    IntervalsOf(speechIntervals, p)[
        LastOf({i \in EventsAtOrBefore(p, T) :
                   IntervalsOf(speechIntervals, p)[i].type = "start"})].timestampMs

HoldsEarliestStart(q, T) ==
    LET open == OpenSet(T)
    IN /\ q \in open
       /\ \A r \in open : StartOf(q, T) <= StartOf(r, T)

CaptionsAtOrBeforeIdx(T) ==
    {i \in 1..Len(captionAudioTimes) : captionAudioTimes[i].timestampMs <= T}

\* the speakers named by the caption entries with the greatest timestamp at or
\* before T
LatestCaptionSpeakers(T) ==
    {captionAudioTimes[i].speakerId : i \in
        {i \in CaptionsAtOrBeforeIdx(T) :
            \A j \in CaptionsAtOrBeforeIdx(T) :
                captionAudioTimes[j].timestampMs <= captionAudioTimes[i].timestampMs}}

\* C5: with two or more participants open at T, when the most recent caption
\* entry at or before T names an open participant, that participant is
\* returned, even if another open participant started earlier.
C5_CaptionPreferred ==
    \A T \in QueryTimes : \A q \in Participants :
        (/\ LatestCaptionSpeakers(T) = {q}
         /\ IsOpenAt(q, T)
         /\ Cardinality(OpenSet(T)) >= 2)
          => speakerAt(T) = q

\* the caption names the later starter and the query returns it
C5_Witness ==
    \E T \in QueryTimes : \E q \in Participants : \E r \in Participants :
        /\ Cardinality(OpenSet(T)) >= 2
        /\ q \in OpenSet(T) /\ r \in OpenSet(T)
        /\ StartOf(r, T) < StartOf(q, T)
        /\ LatestCaptionSpeakers(T) = {q}
        /\ Len(captionAudioTimes) = 2
        /\ speakerAt(T) = q

\* C6: with two or more participants open at T and no caption data, the
\* participant returned is an open one whose most recent 'start' at or before T
\* is the earliest.
C6_EarliestStartWithoutCaptions ==
    \A T \in QueryTimes :
        (captionAudioTimes = <<>> /\ Cardinality(OpenSet(T)) >= 2)
          => HoldsEarliestStart(speakerAt(T), T)

\* two open participants with different starts, no captions
C6_Witness ==
    /\ captionAudioTimes = <<>>
    /\ \E T \in QueryTimes : \E r \in Participants :
          /\ Cardinality(OpenSet(T)) >= 2
          /\ r \in OpenSet(T)
          /\ speakerAt(T) \in OpenSet(T)
          /\ StartOf(speakerAt(T), T) < StartOf(r, T)

\* C7: with several participants open at T, caption data whose most recent
\* entry at or before T names a participant that is not open, or that has no
\* entry at or before T at all, is ignored: the earliest-start open participant
\* is returned.
C7_CaptionIgnored ==
    \A T \in QueryTimes :
        (/\ captionAudioTimes # <<>>
         /\ Cardinality(OpenSet(T)) >= 2
         /\ LatestCaptionSpeakers(T) \cap OpenSet(T) = {})
          => HoldsEarliestStart(speakerAt(T), T)

\* one state showing both cases: at one query time the latest caption names a
\* participant that is not open, at another all captions are later
C7_Witness ==
    /\ \E T \in QueryTimes : \E r \in Participants :
          /\ Cardinality(OpenSet(T)) >= 2
          /\ LatestCaptionSpeakers(T) # {}
          /\ LatestCaptionSpeakers(T) \cap OpenSet(T) = {}
          /\ r \in OpenSet(T)
          /\ StartOf(speakerAt(T), T) < StartOf(r, T)
    /\ \E T \in QueryTimes :
          /\ Cardinality(OpenSet(T)) >= 2
          /\ captionAudioTimes # <<>>
          /\ CaptionsAtOrBeforeIdx(T) = {}
          /\ HoldsEarliestStart(speakerAt(T), T)

\* C8: the query returns none iff no participant is open at T, and with
\* exactly one open participant it returns that one whatever the captions say.
C8_NoneOrSingle ==
    \A T \in QueryTimes :
        LET open == OpenSet(T)
            answer == speakerAt(T)
        IN /\ (answer = NoSpeaker <=> open = {})
           /\ Cardinality(open) = 1 => open = {answer}

\* a participant that is closed again at one time, and alone open at another
\* time for which the caption names somebody else
C8_Witness ==
    /\ \E T \in QueryTimes : \E p \in Participants :
          /\ OpenSet(T) = {}
          /\ EventsAtOrBefore(p, T) # {}
          /\ speakerAt(T) = NoSpeaker
    /\ \E T \in QueryTimes : \E q \in Participants : \E r \in Participants :
          /\ OpenSet(T) = {q}
          /\ r # q
          /\ LatestCaptionSpeakers(T) = {r}
          /\ speakerAt(T) = q

\* C9: the legacy query returns the speaker of an entry with the greatest
\* timestamp among the entries at or before T, and none iff there is no entry
\* at or before T, in whatever order the entries were added.
C9_LegacyLastCaption ==
    \A T \in QueryTimes :
        LET r == getLastSpeakerIdForTimestampMs(captionAudioTimes, T)
        IN /\ (r = NoSpeaker <=> CaptionsAtOrBeforeIdx(T) = {})
           /\ CaptionsAtOrBeforeIdx(T) # {} => r \in LatestCaptionSpeakers(T)

\* entries added out of timestamp order; the answer for T = 300 is the speaker
\* of the middle timestamp, who was added last
C9_Witness ==
    /\ Len(captionAudioTimes) = 3
    /\ captionAudioTimes[1].timestampMs = 400
    /\ captionAudioTimes[2].timestampMs = 0
    /\ captionAudioTimes[3].timestampMs = 200
    /\ captionAudioTimes[3].speakerId # captionAudioTimes[2].speakerId
    /\ captionAudioTimes[3].speakerId # captionAudioTimes[1].speakerId
    /\ getLastSpeakerIdForTimestampMs(captionAudioTimes, 300) = captionAudioTimes[3].speakerId
    /\ getLastSpeakerIdForTimestampMs(captionAudioTimes, -100) = NoSpeaker

----------------------------------------------------------------------------
(* Claims about the audio relay queue *)

ChunksOf(queue) == {queue[i] : i \in 1..Len(queue)}

\* the chunks a step takes off the queue of a track
Dequeued(tr) ==
    ChunksOf(audioTracks[tr].audioDataQueue) \ ChunksOf(audioTracks'[tr].audioDataQueue)

C10_DequeueStep ==
    /\ \A tr \in AudioTracks : \A c \in Dequeued(tr) :
          now >= c.audioArrivalTime + 2000
    /\ \A k \in (Len(wsAudio) + 1)..Len(wsAudio') :
          \E tr \in AudioTracks : \E c \in Dequeued(tr) :
              /\ c.audioData = wsAudio'[k].audioData
              /\ now >= c.audioArrivalTime + 2000

\* C10: a chunk queued with arrival time T leaves the queue, emitted or
\* dropped, only at a clock time >= T + 2000 ms, and every per-participant
\* audio message sent in a step carries a chunk dequeued in that step.
C10_LatencyBuffer == [][C10_DequeueStep]_vars

\* one chunk has been emitted while a later one is still held back
C10_Witness ==
    /\ Len(wsAudio) >= 1
    /\ Len(audioTracks["A1"].audioDataQueue) >= 1
    /\ now < audioTracks["A1"].audioDataQueue[1].audioArrivalTime + 2000
    /\ audioTracks["A1"].handleAudioTrackDebugInfo.totalFrames >= 1

\* the chunks a step takes off the queue of a track for which nobody is
\* speaking at their arrival time
DequeuedUnattributed(tr) ==
    {c \in Dequeued(tr) :
        getSpeakerIdForTimestampMsUsingSpeechIntervals(
            speechIntervals, captionAudioTimes, c.audioArrivalTime) = NoSpeaker}

C11_CountersAddUp ==
    \A tr \in AudioTracks :
        LET info == audioTracks[tr].handleAudioTrackDebugInfo
        IN info.totalFrames
             = info.framesWithDominantSpeaker + info.framesWithoutDominantSpeaker

C11_DropStep ==
    \A tr \in AudioTracks :
        /\ \A c \in DequeuedUnattributed(tr) :
              /\ \A k \in (Len(wsAudio) + 1)..Len(wsAudio') :
                    wsAudio'[k].audioData # c.audioData
              /\ \A tr2 \in AudioTracks :
                    c \notin ChunksOf(audioTracks'[tr2].audioDataQueue)
        /\ (audioTracks'[tr].timeSinceLastDebugInfoSend
               = audioTracks[tr].timeSinceLastDebugInfoSend)
             => audioTracks'[tr].handleAudioTrackDebugInfo.framesWithoutDominantSpeaker
                  = audioTracks[tr].handleAudioTrackDebugInfo.framesWithoutDominantSpeaker
                      + Cardinality(DequeuedUnattributed(tr))

\* C11: a dequeued chunk whose arrival time resolves to no participant is
\* dropped (no audio message carries it, it is in no queue afterwards) and
\* framesWithoutDominantSpeaker grows by one for it; in every state
\* totalFrames = framesWithDominantSpeaker + framesWithoutDominantSpeaker.
C11_UnattributedDropped == [](C11_CountersAddUp) /\ [][C11_DropStep]_vars

\* a chunk was dequeued with nobody speaking: counted, nothing sent
C11_Witness ==
    /\ audioTracks["A1"].handleAudioTrackDebugInfo.framesWithoutDominantSpeaker >= 1
    /\ audioTracks["A1"].handleAudioTrackDebugInfo.totalFrames >= 1
    /\ wsAudio = <<>>
    /\ nChunks >= 1

----------------------------------------------------------------------------
(* Claims about several audio sources and their end of life *)

\* the sources whose poll loop is running
ActiveSources(tracks) == {tr \in AudioTracks : tracks[tr].intervalActive}

\* the sources that have signalled their end of life
EndedSources(tracks) ==
    {tr \in AudioTracks : tracks[tr].trackEnded \/ tracks[tr].streamClosed}

\* the active source that was registered first
CanonicalSource(tracks) ==
    LET idx == {i \in 1..Len(receiverMap) :
                  \E tr \in ActiveSources(tracks) :
                      ReceiverOf(tr) = receiverMap[i].receiver}
    IN IF idx = {} THEN "none"
       ELSE LET first == CHOOSE i \in idx : \A j \in idx : i <= j
            IN CHOOSE tr \in AudioTracks : ReceiverOf(tr) = receiverMap[first].receiver

\* the step hands a silent frame to a track that has been non-silent before
SilentFrameStep(tr) ==
    /\ nChunks' = nChunks + 1
    /\ lastFrame'.trackId = tr
    /\ ~lastFrame'.nonSilent
    /\ audioTracks[tr].trackIsNonSilent

FrameQueued(tr) ==
    /\ Len(audioTracks'[tr].audioDataQueue) = Len(audioTracks[tr].audioDataQueue) + 1
    /\ audioTracks'[tr].audioDataQueue[Len(audioTracks'[tr].audioDataQueue)].audioData.frame
          = lastFrame'.frame

C12_SuppressionStep ==
    /\ \A tr \in AudioTracks :
          SilentFrameStep(tr) =>
             (FrameQueued(tr)
                <=> (Cardinality(ActiveSources(audioTracks)) <= 1
                       \/ tr = CanonicalSource(audioTracks)))
    /\ (/\ Len(wsJson') = Len(wsJson) + 1
        /\ wsJson'[Len(wsJson')].type = "MultipleAudioQueuesDetected")
          => Cardinality(ActiveSources(audioTracks')) > 1

\* C12: a silent frame of a track that has carried sound is queued unless
\* more than one source is active and the track is not the canonical (first
\* registered active) one; the multiple-source diagnostic is sent only when
\* more than one source is active.
C12_CanonicalKeepsSilence == [][C12_SuppressionStep]_vars

C13_QueueReleased ==
    \A tr \in EndedSources(audioTracks) :
        /\ ~audioTracks[tr].intervalActive
        /\ audioTracks[tr].audioDataQueue = <<>>
        /\ tr \notin globalAudioQueueIntervalsSet

C13_NoGrowthStep ==
    \A tr \in EndedSources(audioTracks) :
        Len(audioTracks'[tr].audioDataQueue) <= Len(audioTracks[tr].audioDataQueue)

\* C13: once a source has signalled its end of life (track ended, stream
\* flushed or pipeline failed) its poll interval is cleared, its queue is
\* empty and never grows again, and it is no longer among the registered
\* queue intervals that count as active sources.
C13_EndOfLifeReleasesQueue == [](C13_QueueReleased) /\ [][C13_NoGrowthStep]_vars

\* the chunk made of frame f waits in the queue of a track
Queued(f) ==
    \E tr \in AudioTracks :
       \E i \in 1..Len(audioTracks[tr].audioDataQueue) :
          audioTracks[tr].audioDataQueue[i].audioData.frame = f

\* C39: every chunk pushed onto the queue of a track is eventually taken off
\* it, also when the track ends or its stream is flushed while the chunk
\* waits for its latency
C39_EveryChunkDequeued ==
    \A f \in 1..MaxChunksTracks : Queued(f) ~> ~Queued(f)

----------------------------------------------------------------------------
(* Claims about the ingestion of session descriptions *)

\* the step is the delivery of sdp to setRemoteDescription
DeliversSdp(sdp) == nEvents' = nEvents + 1 /\ SetRemoteDescription(sdp)

\* the values the msid lines of a media section carry
MsidsOf(section) ==
    {section.ssrc[i].value : i \in {j \in 1..Len(section.ssrc) :
                                       section.ssrc[j].attribute = "msid"}}

NumberOfMsidLines(section) ==
    Cardinality({j \in 1..Len(section.ssrc) : section.ssrc[j].attribute = "msid"})

\* one media section, several ssrc lines that all name one msid, one
\* x-source-streamid
DuplicateSsrcShape(sdp) ==
    /\ Len(sdp) = 1
    /\ NumberOfMsidLines(sdp[1]) >= 2
    /\ Cardinality(MsidsOf(sdp[1])) = 1
    /\ Len(sdp[1].streamIds) = 1

EntriesOf(map) == {map[i] : i \in 1..Len(map)}

RecordsUnder(map, key) == {i \in 1..Len(map) : map[i].key = key}

C14_Step ==
    \A sdp \in SessionDescriptions :
        (DuplicateSsrcShape(sdp) /\ DeliversSdp(sdp)) =>
            LET mapping == extractStreamIdToSSRCMappingFromSDP(sdp)
                stream == [clientStreamId |-> sdp[1].streamIds[1],
                           serverStreamId |-> CHOOSE v \in MsidsOf(sdp[1]) : TRUE]
            IN /\ mapping = <<stream>>
               /\ Cardinality(RecordsUnder(physicalStreamsByClientStreamId',
                                           stream.clientStreamId)) = 1
               /\ Cardinality(RecordsUnder(physicalStreamsByServerStreamId',
                                           stream.serverStreamId)) = 1
               /\ MapGet(physicalStreamsByClientStreamId', stream.clientStreamId) = stream
               /\ MapGet(physicalStreamsByServerStreamId', stream.serverStreamId) = stream
               /\ \A e \in EntriesOf(physicalStreamsByClientStreamId') :
                     e.key # stream.clientStreamId
                        => e \in EntriesOf(physicalStreamsByClientStreamId)
               /\ \A e \in EntriesOf(physicalStreamsByServerStreamId') :
                     e.key # stream.serverStreamId
                        => e \in EntriesOf(physicalStreamsByServerStreamId)

\* C14: ingesting a session description whose single media section has
\* several ssrc lines with one common msid and one x-source-streamid yields a
\* mapping of exactly one PhysicalStream, and each of the two indexes holds
\* exactly one record for it and gains no other record.
C14_DuplicateSsrcOneRecord == [][C14_Step]_vars

\* the description with duplicate ssrc lines was the first event of a fresh
\* manager
C14_Witness ==
    /\ delivered.sdp = <<SdpDuplicateSsrc>>
    /\ Len(physicalStreamsByClientStreamId) = 1
    /\ Len(physicalStreamsByServerStreamId) = 1
    /\ physicalStreamsByClientStreamId[1].key = "55"
    /\ physicalStreamsByServerStreamId[1].key = "Video1"

\* a media section with an msid on one of its ssrc lines and a roster
\* correlation id
WellFormedSection(section) ==
    /\ MsidsOf(section) \ {""} # {}
    /\ Len(section.streamIds) >= 1
    /\ section.streamIds[1] # ""

\* the PhysicalStream records the well-formed sections of sdp describe
WellFormedStreams(sdp) ==
    UNION {{[clientStreamId |-> sdp[j].streamIds[1], serverStreamId |-> v] :
               v \in MsidsOf(sdp[j]) \ {""}} :
           j \in {k \in 1..Len(sdp) : WellFormedSection(sdp[k])}}

C15_Step ==
    \A sdp \in SessionDescriptions :
        DeliversSdp(sdp) =>
            /\ \A e \in EntriesOf(physicalStreamsByClientStreamId') :
                  \/ e \in EntriesOf(physicalStreamsByClientStreamId)
                  \/ /\ e.value \in WellFormedStreams(sdp)
                     /\ e.key = e.value.clientStreamId
            /\ \A e \in EntriesOf(physicalStreamsByServerStreamId') :
                  \/ e \in EntriesOf(physicalStreamsByServerStreamId)
                  \/ /\ e.value \in WellFormedStreams(sdp)
                     /\ e.key = e.value.serverStreamId
            /\ \A stream \in WellFormedStreams(sdp) :
                  /\ MapHas(physicalStreamsByClientStreamId', stream.clientStreamId)
                  /\ MapHas(physicalStreamsByServerStreamId', stream.serverStreamId)
                  /\ MapGet(physicalStreamsByServerStreamId', stream.serverStreamId)
                        \in WellFormedStreams(sdp)

\* C15: a media section without msid on any ssrc line, or without
\* x-source-streamid, adds no record to either index: after an ingestion every
\* record of an index is an old one or the record of a well-formed section,
\* and every well-formed section of the description is in both indexes.
C15_MalformedSectionSkipped == [][C15_Step]_vars

\* a description with two malformed sections and one well-formed section was
\* ingested by a fresh manager: only the well-formed section is recorded
C15_Witness ==
    /\ delivered.sdp = <<SdpPartlyMalformed>>
    /\ Len(physicalStreamsByClientStreamId) = 1
    /\ physicalStreamsByClientStreamId[1].value
          = [clientStreamId |-> "56", serverStreamId |-> "Video2"]
    /\ ~MapHas(physicalStreamsByClientStreamId, "57")
    /\ ~MapHas(physicalStreamsByServerStreamId, "Audio1")

----------------------------------------------------------------------------
(* Claims about replays and reorderings of the manager's events *)

\* the step delivers the latest event of a source once more
RedeliversSdp(sdp) ==
    /\ Len(delivered.sdp) > 0 /\ delivered.sdp[Len(delivered.sdp)] = sdp
    /\ delivered'.order = Append(delivered.order, "sdp again")

RedeliversRoster(participant) ==
    /\ Len(delivered.roster) > 0
    /\ delivered.roster[Len(delivered.roster)] = participant
    /\ delivered'.order = Append(delivered.order, "roster again")

RedeliversSourceRequest(item) ==
    /\ Len(delivered.selection) > 0
    /\ delivered.selection[Len(delivered.selection)] = item
    /\ delivered'.order = Append(delivered.order, "selection again")

C16_SecondDeliveryStep ==
    /\ \A sdp \in SessionDescriptions : RedeliversSdp(sdp) => UNCHANGED managerVars
    /\ \A participant \in RosterUpdates :
          RedeliversRoster(participant) => UNCHANGED managerVars
    /\ \A item \in SourceRequests :
          (RedeliversSourceRequest(item) /\ item.sourceId # "-1")
             => UNCHANGED managerVars

\* the source of the delivery the step makes, "none" if it makes none
DeliveredKind ==
    IF Len(delivered'.order) = Len(delivered.order) + 1
    THEN delivered'.order[Len(delivered'.order)] ELSE "none"

C16_TwiceIsOnceStep ==
    /\ DeliveredKind \in {"sdp", "sdp again"} =>
          LET sdp == delivered'.sdp[Len(delivered'.sdp)]
          IN upsertPhysicalStreams(Manager', extractStreamIdToSSRCMappingFromSDP(sdp))
                = Manager'
    /\ DeliveredKind \in {"roster", "roster again"} =>
          LET participant == delivered'.roster[Len(delivered'.roster)]
          IN syncVirtualStreamsFromParticipant(Manager', participant) = Manager'
    /\ DeliveredKind \in {"selection", "selection again"} =>
          LET item == delivered'.selection[Len(delivered'.selection)]
          IN item.sourceId # "-1" => processSourceRequest(Manager', item) = Manager'

\* C16: whenever a session description, a roster update or a source request
\* with a non-sentinel id has been ingested, ingesting the same event once
\* more leaves the virtual streams, both physical indexes and both link maps
\* as they are; in particular a redelivery of the latest such event changes
\* none of them.
C16_Idempotent == [][C16_TwiceIsOnceStep /\ C16_SecondDeliveryStep]_vars

\* a roster update and a source request were delivered to a fresh manager and
\* one of them was delivered again
C16_Witness ==
    /\ delivered.roster = <<RosterP2WebcamAndAudio>>
    /\ delivered.selection = <<SourceRequest("56", "10")>>
    /\ delivered.sdp = <<>>
    /\ Len(delivered.order) = 3
    /\ delivered.order[3] = "roster again"
    /\ Len(virtualStreams) = 2
    /\ DOMAIN physicalClientStreamIdToVirtualStreamIdMapping = {"56"}

----------------------------------------------------------------------------
(* Claims about the sentinel delete of a link *)

\* the step delivers the source request (d, "-1")
DeliversSentinelFor(d) ==
    /\ DeliveredKind \in {"selection", "selection again"}
    /\ delivered'.selection[Len(delivered'.selection)] = SourceRequest(d, "-1")

DescriptionIds == {item.streamMsid : item \in SourceRequests}

\* d is linked to r in both maps
Linked(d, r) ==
    /\ d \in DOMAIN physicalClientStreamIdToVirtualStreamIdMapping
    /\ physicalClientStreamIdToVirtualStreamIdMapping[d] = r
    /\ r \in DOMAIN virtualStreamIdToPhysicalClientStreamIdMapping
    /\ virtualStreamIdToPhysicalClientStreamIdMapping[r] = d

C18_Step ==
    \A d \in DescriptionIds :
        (/\ d \in DOMAIN physicalClientStreamIdToVirtualStreamIdMapping
         /\ Linked(d, physicalClientStreamIdToVirtualStreamIdMapping[d])
         /\ DeliversSentinelFor(d))
          => LET r == physicalClientStreamIdToVirtualStreamIdMapping[d]
             IN /\ physicalClientStreamIdToVirtualStreamIdMapping'
                      = ObjectDelete(physicalClientStreamIdToVirtualStreamIdMapping, d)
                /\ virtualStreamIdToPhysicalClientStreamIdMapping'
                      = ObjectDelete(virtualStreamIdToPhysicalClientStreamIdMapping, r)
                /\ d \notin DOMAIN physicalClientStreamIdToVirtualStreamIdMapping'
                /\ r \notin DOMAIN virtualStreamIdToPhysicalClientStreamIdMapping'

\* C18: a source request (d, "-1") delivered while d is linked to r in both
\* maps removes exactly the entry of d from the description-id map and
\* exactly the entry of r from the roster-id map; every other entry of both
\* maps is unchanged.
C18_SentinelUnlinks == [][C18_Step]_vars

\* in the running meeting the receiver 55 has dropped its source: only the
\* link of 56 and 10 is left
C18_Witness ==
    /\ delivered.selection
          = Append(MeetingHistory.selection, SourceRequest("55", "-1"))
    /\ DOMAIN physicalClientStreamIdToVirtualStreamIdMapping = {"56"}
    /\ DOMAIN virtualStreamIdToPhysicalClientStreamIdMapping = {"10"}
    /\ nConsoleErrors = 0

C19_Step ==
    \A d \in DescriptionIds :
        (/\ d \notin DOMAIN physicalClientStreamIdToVirtualStreamIdMapping
         /\ DeliversSentinelFor(d))
          => /\ UNCHANGED managerVars
             /\ nConsoleErrors' = nConsoleErrors + 1

\* C19: a source request (d, "-1") delivered while the description-id map has
\* no entry for d leaves both link maps, the virtual streams and both
\* physical indexes unchanged and logs one error.
C19_SentinelWithoutLink == [][C19_Step]_vars

\* in the running meeting the sentinel for 55 was delivered twice: the second
\* delivery found no link and was logged
C19_Witness ==
    /\ delivered.selection
          = Append(MeetingHistory.selection, SourceRequest("55", "-1"))
    /\ delivered.order[Len(delivered.order)] = "selection again"
    /\ nEvents = 2
    /\ nConsoleErrors = 1
    /\ DOMAIN physicalClientStreamIdToVirtualStreamIdMapping = {"56"}
    /\ Len(virtualStreams) = 3

----------------------------------------------------------------------------
(* Claims about the selection of the video source *)

\* positions, in insertion order, of the virtual streams that are considered
EligiblePositions ==
    {i \in 1..Len(virtualStreams) :
        HasPhysicalStreamAndIsNotBot(Manager, virtualStreams[i].value)}

ActiveScreenSharePositions ==
    {i \in EligiblePositions :
        virtualStreams[i].value.isScreenShare /\ virtualStreams[i].value.isActive}

\* the participant the signalled dominant speaker stream belongs to, if any
DominantSpeakerSignalled ==
    {virtualStreams[i].value.participant :
        i \in {j \in 1..Len(virtualStreams) :
                  virtualStreams[j].key = dominantSpeakerStreamId}}

DominantWebcamPositions ==
    {i \in EligiblePositions :
        /\ virtualStreams[i].value.participant \in DominantSpeakerSignalled
        /\ virtualStreams[i].value.isWebcam
        /\ virtualStreams[i].value.isActive}

SourceIdsAt(positions) == {virtualStreams[i].key : i \in positions}

FirstOf(positions) == CHOOSE i \in positions : \A j \in positions : i <= j

\* C20: getVirtualVideoStreamIdToSend returns an eligible active screenshare
\* if there is one; otherwise an eligible active webcam of the signalled
\* dominant speaker if there is one; otherwise the first eligible stream in
\* insertion order; and it returns none iff no stream is eligible.
C20_StrictPreference ==
    LET chosen == getVirtualVideoStreamIdToSend(Manager, dominantSpeakerStreamId)
    IN /\ (chosen = Null) <=> (EligiblePositions = {})
       /\ ActiveScreenSharePositions # {}
             => chosen \in SourceIdsAt(ActiveScreenSharePositions)
       /\ (ActiveScreenSharePositions = {} /\ DominantWebcamPositions # {})
             => chosen \in SourceIdsAt(DominantWebcamPositions)
       /\ (/\ ActiveScreenSharePositions = {} /\ DominantWebcamPositions = {}
           /\ EligiblePositions # {})
             => chosen = virtualStreams[FirstOf(EligiblePositions)].key

\* the dominant speaker's webcam is eligible and so is the screenshare that
\* was added after it, and the first eligible stream is neither of them
C20_Witness ==
    /\ ActiveScreenSharePositions # {}
    /\ DominantWebcamPositions # {}
    /\ FirstOf(EligiblePositions) \notin ActiveScreenSharePositions \cup DominantWebcamPositions
    /\ getVirtualVideoStreamIdToSend(Manager, dominantSpeakerStreamId) = "11"

\* the dominant speaker's webcam is chosen over the first eligible stream
C20_WitnessDominant ==
    /\ ActiveScreenSharePositions = {}
    /\ DominantWebcamPositions # {}
    /\ FirstOf(EligiblePositions) \notin DominantWebcamPositions
    /\ getVirtualVideoStreamIdToSend(Manager, dominantSpeakerStreamId) = "10"

----------------------------------------------------------------------------
(* Claims about the resolved video source *)

InSeq(x, seq) == \E i \in 1..Len(seq) : seq[i] = x

\* C21: once the source request linking description id 55 to roster id 9, the
\* roster update declaring 9 an active webcam of P2 and the session
\* description binding 55 have all been delivered, in whatever order,
\* getVideoStreamIdToSend returns the server stream id of the PhysicalStream
\* recorded under 55.
C21_LinkedWebcamResolved ==
    (/\ InSeq(SourceRequest("55", "9"), delivered.selection)
     /\ InSeq(RosterP2Webcam9, delivered.roster)
     /\ InSeq(SdpDuplicateSsrc, delivered.sdp))
       => /\ MapHas(physicalStreamsByClientStreamId, "55")
          /\ getVideoStreamIdToSend(Manager, dominantSpeakerStreamId)
                = MapGet(physicalStreamsByClientStreamId, "55").serverStreamId
          /\ getVideoStreamIdToSend(Manager, dominantSpeakerStreamId) = "Video1"

\* the roster declared the webcam of another participant and then source 9
\* before the source request and the session description arrived
C21_Witness ==
    /\ delivered.order = <<"roster", "roster", "selection", "sdp">>
    /\ delivered.roster = <<RosterP1Webcam10, RosterP2Webcam9>>
    /\ getVideoStreamIdToSend(Manager, dominantSpeakerStreamId) = "Video1"

\* the webcams and screenshares that are not the agent's own stream and whose
\* link leads to a recorded PhysicalStream
ResolvingPositions ==
    {i \in 1..Len(virtualStreams) :
        LET v == virtualStreams[i].value
        IN /\ v.isScreenShare \/ v.isWebcam
           /\ v.sourceId \notin DOMAIN physicalClientStreamIdToVirtualStreamIdMapping
           /\ v.sourceId \in DOMAIN virtualStreamIdToPhysicalClientStreamIdMapping
           /\ MapHas(physicalStreamsByClientStreamId,
                     virtualStreamIdToPhysicalClientStreamIdMapping[v.sourceId])}

ServerStreamIdsAt(positions) ==
    {MapGet(physicalStreamsByClientStreamId,
            virtualStreamIdToPhysicalClientStreamIdMapping[virtualStreams[i].key]
           ).serverStreamId : i \in positions}

\* C22: only webcams and screenshares that are not the agent's own stream and
\* whose link leads to a recorded PhysicalStream are considered; whenever
\* there is such a stream, getVideoStreamIdToSend returns the server stream id
\* of one of them, whatever links of other streams lead nowhere.
C22_ResolvedStreamIsReturned ==
    ResolvingPositions # {}
       => getVideoStreamIdToSend(Manager, dominantSpeakerStreamId)
             \in ServerStreamIdsAt(ResolvingPositions)

\* the step appends one call of ws.sendVideo
SendsVideo == wsVideo' # wsVideo

\* one step, as C23 requires it
C23_SelectedStep ==
    SendsVideo =>
       /\ Len(wsVideo') = Len(wsVideo) + 1
       /\ wsVideo'[Len(wsVideo')].streamId
             = getVideoStreamIdToSend(Manager, dominantSpeakerStreamId)
       /\ wsVideo'[Len(wsVideo')].streamId
             = videoTracks[wsVideo'[Len(wsVideo')].track].firstStreamId
       /\ \A i \in 1..Len(wsVideo) :
             wsVideo[i].track = wsVideo'[Len(wsVideo')].track
                => wsVideo'[Len(wsVideo')].currentTime - wsVideo[i].currentTime
                      >= frameInterval

\* C23: a frame of a track is sent only when the stream id of the track is the
\* video stream id to send at the time the frame is processed, so no frame of
\* any other track is ever sent; two frames sent one after the other for the
\* same track are at least 1000 / 24 ms apart.
C23_OnlySelectedTrackThrottled == [][C23_SelectedStep]_vars

\* two frames of V2 have been sent 1000 / 24 ms apart, after a frame of V1
C23_Witness ==
    /\ Len(wsVideo) = 3
    /\ wsVideo[1].track = "V1"
    /\ wsVideo[2].track = "V2"
    /\ wsVideo[3].track = "V2"
    /\ wsVideo[3].currentTime - wsVideo[2].currentTime = frameInterval

\* the step makes one call of source.start
StartsSource == Len(sourceStarts') = Len(sourceStarts) + 1

\* all chunks played so far have the same duration and were passed to
\* playPCMAudio at the same time
BackToBack ==
    \A i \in 1..Len(enqueues) :
       /\ enqueues[i].duration = enqueues[1].duration
       /\ enqueues[i].at = enqueues[1].at

\* C24: when chunks of one duration D are played back to back and every drain
\* timer fires at its time, the start times passed to source.start increase
\* by exactly D from one chunk to the next.
C24_BackToBackExactlyApart ==
    (BackToBack /\ lateDrains = 0) =>
       \A i \in 1..(Len(sourceStarts) - 1) :
          sourceStarts[i + 1].when - sourceStarts[i].when = enqueues[1].duration

C24_Witness ==
    /\ BackToBack
    /\ lateDrains = 0
    /\ Len(sourceStarts) = 3
    /\ sourceStarts[3].when = enqueues[1].at + 2 * enqueues[1].duration

\* the end of the chunk started by the i-th call of source.start
EndOf(i) == sourceStarts[i].when + sourceStarts[i].duration

\* one step, as C25 requires it
C25_Step ==
    StartsSource =>
       LET n == Len(sourceStarts)
           started == sourceStarts'[n + 1]
       IN /\ started.when = Max(nextPlayTime, outNow)
          /\ started.when >= outNow
          /\ n > 0 => /\ started.when >= EndOf(n)
                      /\ EndOf(n) >= outNow => started.when = EndOf(n)
          /\ nextPlayTime' = started.when + started.duration

\* C25: the start time a drain iteration passes to source.start is the larger
\* of nextPlayTime and the clock: not before the clock, not before the end of
\* the chunk started before, and exactly that end when it is not in the past;
\* afterwards nextPlayTime is the start plus the duration of the chunk.
C25_StartIsMaxOfAnchorAndClock == [][C25_Step]_vars

\* the second chunk started at the end of the first, the third after a gap,
\* at the clock time of a late drain
C25_Witness ==
    /\ Len(sourceStarts) = 3
    /\ sourceStarts[2].when = EndOf(1)
    /\ sourceStarts[3].when > EndOf(2)
    /\ sourceStarts[3].when = sourceStarts[3].currentTime
    /\ nextPlayTime = EndOf(3)

\* the step calls the turnOffMic callback
SignalsMicOff ==
    /\ Len(micSignals') = Len(micSignals) + 1
    /\ micSignals'[Len(micSignals')].signal = "off"

\* the step is a call of playPCMAudio
Plays == Len(enqueues') = Len(enqueues) + 1

HoldTimers(pending) == {tm \in pending : tm.kind = "hold"}

\* one step, as C26 requires it
C26_Step ==
    /\ SignalsMicOff =>
          /\ \E tm \in HoldTimers(timers) \ timers' :
                /\ outNow - tm.armedAt >= HoldMs
                /\ \A i \in 1..Len(enqueues) : enqueues[i].at <= tm.armedAt
          /\ audioQueue = <<>>
          /\ \A i \in 1..Len(enqueues) : outNow - enqueues[i].at >= HoldMs
    /\ Plays => HoldTimers(timers') = {}

\* C26: turnOffMic is called only by a mic-off timer that was armed on an
\* empty queue and then ran for 2000 ms with no playPCMAudio in between; a
\* playPCMAudio leaves no mic-off timer pending; so turnOffMic is never called
\* less than 2000 ms after a playPCMAudio, nor while the queue holds a chunk.
C26_MicOffOnlyAfterHold == [][C26_Step]_vars

\* a chunk played during the hold cancelled the first mic-off timer; the
\* second one ran its 2000 ms and turned the microphone off
C26_Witness ==
    /\ Len(enqueues) = 2
    /\ enqueues[1].at = 0
    /\ enqueues[2].at = 700
    /\ Len(micSignals) = 3
    /\ micSignals[3] = [signal |-> "off", at |-> 2780]

DrainTimers(pending) == {tm \in pending : tm.kind = "drain"}

\* C37: at most one drain timer is pending, isPlayingAudioQueue is true iff
\* one is, at most one mic-off timer is pending and none while the queue
\* holds a chunk; no chunk is passed to source.start twice
C37_OneDrainChain ==
    /\ Cardinality(DrainTimers(timers)) <= 1
    /\ isPlayingAudioQueue <=> DrainTimers(timers) # {}
    /\ Cardinality(HoldTimers(timers)) <= 1
    /\ HoldTimers(timers) # {} => audioQueue = <<>>
    /\ \A i, j \in 1..Len(sourceStarts) :
          sourceStarts[i].id = sourceStarts[j].id => i = j

\* a chunk that arrived during the hold cancelled the mic-off timer and
\* started a drain chain, and a chunk that arrived while the chain ran waits
\* in the queue
C37_Witness ==
    /\ Len(enqueues) = 3
    /\ \A i \in 1..Len(micSignals) : micSignals[i].signal = "on"
    /\ enqueues[2].at > enqueues[1].at + enqueues[1].duration
    /\ enqueues[3].at >= enqueues[2].at
    /\ Len(sourceStarts) = 2
    /\ Len(audioQueue) = 1
    /\ Cardinality(DrainTimers(timers)) = 1
    /\ HoldTimers(timers) = {}

\* the chunks passed to source.start so far are the first chunks passed to
\* playPCMAudio, each once and in the order of the calls
StartedInOrder ==
    /\ Len(sourceStarts) <= Len(enqueues)
    /\ \A i \in 1..Len(sourceStarts) :
          /\ sourceStarts[i].id = enqueues[i].id
          /\ sourceStarts[i].duration = enqueues[i].duration

\* the chunks passed to playPCMAudio and not yet to source.start wait in the
\* queue, in the order of the calls
WaitingInOrder ==
    /\ Len(audioQueue) = Len(enqueues) - Len(sourceStarts)
    /\ \A k \in 1..Len(audioQueue) :
          audioQueue[k].id = enqueues[Len(sourceStarts) + k].id

\* C38: when the timers that are set fire, every chunk passed to playPCMAudio
\* is eventually passed to source.start, and chunks are passed to
\* source.start once each, in the order of the calls of playPCMAudio
C38_EveryChunkStartedInOrder ==
    /\ [](StartedInOrder /\ WaitingInOrder)
    /\ \A n \in 1..MaxEnqueues : (Len(enqueues) >= n) ~> (Len(sourceStarts) >= n)

\* three chunks arrived while the first was playing and all were started
C38_Witness ==
    /\ Len(enqueues) = 3
    /\ enqueues[3].at < enqueues[1].at + enqueues[1].duration
    /\ Len(sourceStarts) = 3
    /\ audioQueue = <<>>

\* one step, as C36 requires it
C36_Step == SignalsMicOff => outNow >= nextPlayTime

\* C36: turnOffMic is never called at a clock time earlier than
\* nextPlayTime, the end of the last chunk passed to source.start, whatever
\* the duration of the chunks
C36_MicOffNotBeforeEnd == [][C36_Step]_vars

\* the kind of message a send operation produces
TagOfSend(op) ==
    CASE op = "sendJson" -> MESSAGE_TYPES.JSON
      [] op = "sendVideo" -> MESSAGE_TYPES.VIDEO
      [] op = "sendPerParticipantAudio" -> MESSAGE_TYPES.PER_PARTICIPANT_AUDIO
      [] OTHER -> MESSAGE_TYPES.AUDIO

\* the fields of its kind that a message was sent with
SentFields(m) ==
    LET tag == TagOfSend(m.op)
    IN CASE tag = MESSAGE_TYPES.JSON -> [NoDecoded EXCEPT !.tag = tag, !.text = m.args.text]
         [] tag = MESSAGE_TYPES.VIDEO ->
              [NoDecoded EXCEPT !.tag = tag, !.timestamp = m.args.timestamp,
                                !.id = m.args.id, !.width = m.args.width,
                                !.height = m.args.height, !.payload = m.args.payload]
         [] tag = MESSAGE_TYPES.AUDIO ->
              [NoDecoded EXCEPT !.tag = tag, !.timestamp = m.args.timestamp,
                                !.payload = m.args.payload]
         [] OTHER -> [NoDecoded EXCEPT !.tag = tag, !.id = m.args.id,
                                       !.payload = m.args.payload]

RoundTrips(m) ==
    /\ Decode(m.bytes) = SentFields(m)
    /\ m.op = "sendPerParticipantAudio" => m.bytes[5] = Len(TextEncode(m.args.id))

\* C27: reading a sent message by the layout of its kind gives back the tag
\* and every field it was sent with, the empty and the longest participant
\* id included; the length byte of a per-participant audio message is the
\* number of bytes of the participant id.
C27_RoundTrip == \A i \in 1..Len(wsMessages) : RoundTrips(wsMessages[i])

\* the names of the fields of a message before its payload
HeaderOf(m) == [k \in 1..(Len(m.fields) - 1) |-> m.fields[k].name]

\* C28: every sent message begins with its type tag in four little-endian
\* bytes, and two messages with the same tag have the same header fields,
\* whichever send operation produced them.
C28_LayoutByTag ==
    \A i, j \in 1..Len(wsMessages) :
       /\ Len(wsMessages[i].bytes) >= 4
       /\ GetInt32(wsMessages[i].bytes, 0) = TagOfSend(wsMessages[i].op)
       /\ GetInt32(wsMessages[i].bytes, 0) = GetInt32(wsMessages[j].bytes, 0)
             => HeaderOf(wsMessages[i]) = HeaderOf(wsMessages[j])

\* the part of C27 that holds: JSON, VIDEO and per-participant audio messages
\* with a participant id of at most 255 bytes are read back as sent
RoundTripOfOtherKinds ==
    \A i \in 1..Len(wsMessages) :
       (/\ TagOfSend(wsMessages[i].op) # MESSAGE_TYPES.AUDIO
        /\ Len(TextEncode(wsMessages[i].args.id)) <= 255) => RoundTrips(wsMessages[i])

\* the roster updates delivered for participant p, oldest first
RosterUpdatesOf(p) == SelectSeq(delivered.roster, LAMBDA r : r.id = p)

\* the latest roster update of p marks it inactive
Departed(p) ==
    /\ Len(RosterUpdatesOf(p)) > 0
    /\ RosterUpdatesOf(p)[Len(RosterUpdatesOf(p))].state = "inactive"

\* the step handles a roster update that marks p inactive
MarksInactive(p) ==
    /\ Len(delivered'.order) = Len(delivered.order) + 1
    /\ delivered'.order[Len(delivered'.order)] \in {"roster", "roster again"}
    /\ delivered'.roster[Len(delivered'.roster)].id = p
    /\ delivered'.roster[Len(delivered'.roster)].state = "inactive"

VirtualStreamsNotOf(streams, p) == SelectSeq(streams, LAMBDA e : e.value.participant # p)

\* the source ids the roster has declared for p
SourceIdsDeclaredFor(p) ==
    UNION {{RosterUpdatesOf(p)[i].mediaStreams[k].sourceId :
               k \in 1..Len(RosterUpdatesOf(p)[i].mediaStreams)} :
           i \in 1..Len(RosterUpdatesOf(p))}

\* the PhysicalStreams that the links bind to the given source ids
PhysicalStreamsOfSources(sourceIds) ==
    {MapGet(physicalStreamsByClientStreamId,
            virtualStreamIdToPhysicalClientStreamIdMapping[sourceId]).serverStreamId :
        sourceId \in {x \in sourceIds :
            /\ x \in DOMAIN virtualStreamIdToPhysicalClientStreamIdMapping
            /\ MapHas(physicalStreamsByClientStreamId,
                      virtualStreamIdToPhysicalClientStreamIdMapping[x])}}

\* the PhysicalStreams bound to sources of p and to no source now in the store
PhysicalStreamsOnlyOf(p) ==
    PhysicalStreamsOfSources(SourceIdsDeclaredFor(p))
       \ PhysicalStreamsOfSources({virtualStreams[i].key : i \in 1..Len(virtualStreams)})

\* one step, as C29 requires it
C29_Step ==
    \A p \in Participants :
       /\ MarksInactive(p) =>
             /\ VirtualStreamsNotOf(virtualStreams', p) = virtualStreams'
             /\ VirtualStreamsNotOf(virtualStreams', p) = VirtualStreamsNotOf(virtualStreams, p)
       /\ Departed(p)' =>
             getVideoStreamIdToSend(Manager, dominantSpeakerStreamId)'
                \notin PhysicalStreamsOnlyOf(p)'

\* C29: a roster update that marks a participant inactive removes all of its
\* VirtualStreams in that step and leaves those of the others as they were;
\* while the participant stays inactive, getVideoStreamIdToSend does not
\* return a PhysicalStream of one of its sources.
C29_DepartedParticipantNotSelected == [][C29_Step]_vars

\* the part of C29 about the roster update itself
C29_PurgeStep ==
    \A p \in Participants :
       MarksInactive(p) =>
          /\ VirtualStreamsNotOf(virtualStreams', p) = virtualStreams'
          /\ VirtualStreamsNotOf(virtualStreams', p) = VirtualStreamsNotOf(virtualStreams, p)

PurgedTogether == [][C29_PurgeStep]_vars

\* the updates sent for the user with the given device id, oldest first
UpdatesOf(deviceId) == SelectSeq(captionUpdates, LAMBDA u : u.deviceId = deviceId)

\* the captions of the device whose latest update is not final
OpenCaptions(deviceId) ==
    {captionId \in {"a", "b"} :
        LET own == SelectSeq(UpdatesOf(deviceId), LAMBDA u : u.captionId = captionId)
        IN Len(own) > 0 /\ ~own[Len(own)].isFinal}

\* C30: at most one caption message per user is active, and an update of a
\* user's caption is followed by an update of another caption of that user
\* only if it is final: the earlier message is sent as final before the first
\* update of the new one.
C30_FinalizedBeforeNext ==
    /\ \A i, j \in 1..Len(activeMessages) :
          activeMessages[i].key = activeMessages[j].key => i = j
    /\ \A deviceId \in {"1", "2"} :
          /\ Cardinality(OpenCaptions(deviceId)) <= 1
          /\ OpenCaptions(deviceId) =
                {activeMessages[i].value.msgId :
                    i \in {k \in 1..Len(activeMessages) :
                              UserIdToString(activeMessages[k].key) = deviceId}}
          /\ \A i \in 1..(Len(UpdatesOf(deviceId)) - 1) :
                UpdatesOf(deviceId)[i].captionId # UpdatesOf(deviceId)[i + 1].captionId
                   => UpdatesOf(deviceId)[i].isFinal

\* two calls of addMessage for user 1 produced three updates: caption a,
\* caption a as final, caption b
C30_Witness ==
    /\ nMessages = 2
    /\ Len(captionUpdates) = 3
    /\ captionUpdates[1] = [deviceId |-> "1", captionId |-> "a",
                            text |-> <<104, 105>>, isFinal |-> FALSE]
    /\ captionUpdates[2] = [deviceId |-> "1", captionId |-> "a",
                            text |-> <<104, 105>>, isFinal |-> TRUE]
    /\ captionUpdates[3].captionId = "b"
    /\ captionUpdates[3].deviceId = "1"

----------------------------------------------------------------------------
(* Claims about the two link objects and the two stream indexes *)

\* C34: the two link objects are mutual inverses: the description id d is
\* linked to the roster id r in one iff r is linked to d in the other
C34_LinkMapsAreInverses ==
    LET main == physicalClientStreamIdToVirtualStreamIdMapping
        inverse == virtualStreamIdToPhysicalClientStreamIdMapping
    IN /\ \A d \in DOMAIN main :
             main[d] \in DOMAIN inverse /\ inverse[main[d]] = d
       /\ \A r \in DOMAIN inverse :
             inverse[r] \in DOMAIN main /\ main[inverse[r]] = r

\* C35: every record of the index by local id is the record the index by
\* description id holds under its description id, and the other way round
C35_IndexesAgree ==
    /\ \A i \in 1..Len(physicalStreamsByClientStreamId) :
          LET physicalStream == physicalStreamsByClientStreamId[i].value
          IN /\ MapHas(physicalStreamsByServerStreamId, physicalStream.serverStreamId)
             /\ MapGet(physicalStreamsByServerStreamId, physicalStream.serverStreamId)
                   = physicalStream
    /\ \A i \in 1..Len(physicalStreamsByServerStreamId) :
          LET physicalStream == physicalStreamsByServerStreamId[i].value
          IN /\ MapHas(physicalStreamsByClientStreamId, physicalStream.clientStreamId)
             /\ MapGet(physicalStreamsByClientStreamId, physicalStream.clientStreamId)
                   = physicalStream

----------------------------------------------------------------------------
(* Claims about the caption ids *)

\* the positions of the calls of next for one speaker
CallsOf(speakerKey) ==
    {i \in 1..Len(utteranceCalls) : utteranceCalls[i].speakerKey = speakerKey}

\* the call of the speaker before call j, or 0
PreviousCallOf(speakerKey, j) ==
    IF \E i \in CallsOf(speakerKey) : i < j
    THEN CHOOSE i \in CallsOf(speakerKey) :
            /\ i < j
            /\ \A k \in CallsOf(speakerKey) : k < j => k <= i
    ELSE 0

\* no earlier call, of any speaker, returned the id of call j
NewlyGenerated(j) ==
    \A k \in 1..(j - 1) : utteranceCalls[k].id # utteranceCalls[j].id

\* C31: a chunk of a speaker gets the id of the speaker's previous chunk
\* unless that chunk was final (or there is none), and then it gets an id
\* that no earlier call returned; the calls of other speakers in between
\* make no difference
C31_OneIdPerUtterance ==
    \A j \in 1..Len(utteranceCalls) :
        LET i == PreviousCallOf(utteranceCalls[j].speakerKey, j)
        IN IF i # 0 /\ ~utteranceCalls[i].isFinal
           THEN utteranceCalls[j].id = utteranceCalls[i].id
           ELSE NewlyGenerated(j)

\* speaker 1 said a chunk, speaker 2 said two utterances meanwhile, speaker 1
\* finished the utterance with the id of its first chunk and began another
C31_Witness ==
    /\ Len(utteranceCalls) = 5
    /\ utteranceCalls[1] = [speakerKey |-> "1", isFinal |-> FALSE, id |-> 1]
    /\ utteranceCalls[2] = [speakerKey |-> "2", isFinal |-> TRUE, id |-> 2]
    /\ utteranceCalls[3] = [speakerKey |-> "2", isFinal |-> FALSE, id |-> 3]
    /\ utteranceCalls[4] = [speakerKey |-> "1", isFinal |-> TRUE, id |-> 1]
    /\ utteranceCalls[5] = [speakerKey |-> "1", isFinal |-> FALSE, id |-> 4]

====
